---- MODULE Spec2Model ----
(***************************************************************************)
(* Intent routing (OrchestratorAgent) and entity resolution                *)
(* (ExecutionEntityExtractor) of the audit management chatbot.             *)
(*                                                                         *)
(* Text is modelled at character level: a Python str is a sequence of      *)
(* one-character strings, so that lower(), the "in" substring test, the    *)
(* regular expressions and difflib's ratio are computed, not assumed.      *)
(* Confidences of the classifier are in ten-thousandths (round(c, 4)).     *)
(* Confidences of the extractor are exact fractions [num, den].            *)
(***************************************************************************)
EXTENDS Integers, Sequences, FiniteSets, TLC

VARIABLES
    \* ---- OrchestratorAgent.handle_task, one request at a time ----
    pc,             \* position of handle_task
    message,        \* the UserTask being handled: [context |-> Seq of contents]
    predicted,      \* result of predict_intent: [label, confidence] or NoPrediction
    scenario_log,   \* scenarios of the handle_with_llm calls of this request, in order
    llm_failed,     \* for each of those calls, whether _model_client.create raised
    llm_response,   \* value returned by the "low_confidence" handle_with_llm call
    routed_intent,  \* argument of route_to_agent for this request, or NoIntent
    insert_result,  \* what insert_engineer_task gave route_to_agent for this request
    to_user,        \* AgentResponses published to the user topic for this request
    to_handlers,    \* messages published to handler topics for this request
    user_session_id,\* generate_user_session_id() of this request's engineer path
    user_message,   \* route_to_agent's local user_message (read before any reply)
    engineer_tasks, \* rows of the engineer_tasks table
    \* ---- the audits table and database.py's process-wide cache ----
    db_audits,          \* rows of the audits table, ORDER BY audit_id
    cached_data,        \* database._cached_data: [loaded, audits]
    connected,          \* whether the last get_database_connection gave a connection
    \* ---- ExecutionEntityExtractor, one extract_audit_entities call at a time ----
    rpc,                \* position of the process and of the caller of the extractor
    refreshed,          \* value the last refresh_data_if_needed returned
    audits_data,        \* self.audits_data
    audit_name_to_id,   \* self.audit_name_to_id, a dict in insertion order
    audit_id_to_name,   \* self.audit_id_to_name, a dict in insertion order
    audit_categories,   \* self.audit_categories, a set
    category_to_audits, \* self.category_to_audits, a dict in insertion order
    input_text,         \* the text argument of the current extract_audit_entities call
    set_order,          \* order in which this call iterated self.audit_categories
    result,             \* value returned by the call
    \* ---- AuditEntityRecognizer of the retrieval agent ----
    recognizer,         \* the data references of the recognizer, or NoRecognizer
    recognized,         \* outcome of its extract_audit_entities call at hand
    \* ---- one WebSocket session of api_server.py ----
    sent,               \* messages the client has written to the socket
    accepted,           \* messages handle_client_message has published
    stage,              \* where the handling of each message stands
    delivered,          \* message numbers in the order their responses were sent
    \* ---- AuditExecutionAgent.handle_task after the extraction ----
    execution,          \* the run of safe_execute_audit and of the report
    \* ---- AgentAPIServer of agent_api.py ----
    api,                \* the clock, response_handlers and the REST requests
    \* ---- IntentClassifier as predict_intent uses it ----
    classifier,         \* calls of predict_intent and loads of the weights
    \* ---- the text functions of the extractors, called on their own ----
    text_call,          \* the function, its arguments and the value returned
    \* ---- WebSocketEngineerAgent and CodeGenerationAgent ----
    engineering,        \* one engineer session, its generated code and what was saved
    \* ---- WebSocketResponseHandler of api_server.py ----
    forwarding          \* AgentResponses on their way to one connected client

routerVars == <<pc, message, predicted, scenario_log, llm_failed, llm_response,
                routed_intent, insert_result, to_user, to_handlers,
                user_session_id, user_message, engineer_tasks, classifier>>

resolverVars == <<db_audits, cached_data, connected, rpc, refreshed,
                  audits_data, audit_name_to_id,
                  audit_id_to_name, audit_categories, category_to_audits,
                  input_text, set_order, result, recognizer, recognized,
                  sent, accepted, stage, delivered, execution, api, text_call,
                engineering, forwarding>>

\* the state of the services around the two extractors
serviceVars == <<execution, api, text_call,
                engineering, forwarding>>

sessionVars == <<sent, accepted, stage, delivered>>

vars == <<routerVars, resolverVars>>

(***************************************************************************)
(* Python str primitives                                                   *)
(***************************************************************************)
UpperCase == <<"A","B","C","D","E","F","G","H","I","J","K","L","M",
               "N","O","P","Q","R","S","T","U","V","W","X","Y","Z">>
LowerCase == <<"a","b","c","d","e","f","g","h","i","j","k","l","m",
               "n","o","p","q","r","s","t","u","v","w","x","y","z">>

\* the lower-case letter of each upper-case letter
LowerOf ==
    [c \in {UpperCase[i] : i \in 1..Len(UpperCase)} |->
        LowerCase[CHOOSE i \in 1..Len(UpperCase) : UpperCase[i] = c]]

\* str.lower() on one character
LowerChar(c) == IF c \in DOMAIN LowerOf THEN LowerOf[c] ELSE c

\* U+0130, the capital I with a dot: a letter whose lower case is two
\* characters, i and the combining dot U+0307, which is no letter
CapitalIDot == "I_dot"
CombiningDot == "dot_above"

\* str.lower() on one character, as a string
LowerStr(c) == IF c = CapitalIDot THEN <<"i", CombiningDot>> ELSE <<LowerChar(c)>>

\* str.lower(), half by half
RECURSIVE Lower(_)
Lower(s) ==
    IF s = <<>> THEN <<>>
    ELSE IF Len(s) = 1 THEN LowerStr(s[1])
    ELSE Lower(SubSeq(s, 1, Len(s) \div 2))
            \o Lower(SubSeq(s, Len(s) \div 2 + 1, Len(s)))

\* Python's  sub in s
Contains(s, sub) ==
    \E i \in 0..(Len(s) - Len(sub)) : \A j \in 1..Len(sub) : s[i + j] = sub[j]

(***************************************************************************)
(* OrchestratorAgent: configuration                                        *)
(***************************************************************************)
ORCHESTRATOR_AGENT_TOPIC == "OrchestratorAgent"
USER_TOPIC == "User"
AUDIT_RETRIEVAL_AGENT_TOPIC == "AuditRetrievalAgent"
EXECUTE_AUDIT_AGENT_TOPIC == "ExecuteAuditAgent"
ENGINEER_AGENT_TOPIC == "EngineerAgent"

Labels == {"EXECUTE_AUDIT", "LIST_AUDITS", "GET_AUDIT_HISTORY",
           "GET_AUDIT_HISTORY_FILTERED", "AUDIT_RETRIEVAL_BY_CATEGORY",
           "ENGINEER_AUDIT", "GENERAL"}

INTENT_MAPPING ==
    [l \in Labels |->
        CASE l = "EXECUTE_AUDIT" -> EXECUTE_AUDIT_AGENT_TOPIC
          [] l = "ENGINEER_AUDIT" -> ENGINEER_AGENT_TOPIC
          [] l = "GENERAL" -> "LLM_HANDLER"
          [] OTHER -> AUDIT_RETRIEVAL_AGENT_TOPIC]

\* 0.8000, in ten-thousandths
CONFIDENCE_THRESHOLD == 8000

NoPrediction == [label |-> "none", confidence |-> -1]
NoIntent == "none"

(***************************************************************************)
(* Keywords searched by extract_intent_from_llm_response, and the fixed    *)
(* text handle_with_llm returns when the model client raises.              *)
(***************************************************************************)
KwListAudits == <<"l","i","s","t","_","a","u","d","i","t","s">>
KwByCategory == <<"a","u","d","i","t","_","r","e","t","r","i","e","v","a","l",
                  "_","b","y","_","c","a","t","e","g","o","r","y">>
KwHistoryFiltered == <<"g","e","t","_","a","u","d","i","t","_","h","i","s","t",
                       "o","r","y","_","f","i","l","t","e","r","e","d">>
KwHistory == <<"g","e","t","_","a","u","d","i","t","_","h","i","s","t","o","r","y">>
KwExecute == <<"e","x","e","c","u","t","e","_","a","u","d","i","t">>
KwEngineer == <<"e","n","g","i","n","e","e","r","_","a","u","d","i","t">>

ApologyText ==
    <<"I"," ","a","p","o","l","o","g","i","z","e",","," ","b","u","t"," ","I",
      "'","m"," ","h","a","v","i","n","g"," ","t","r","o","u","b","l","e"," ",
      "p","r","o","c","e","s","s","i","n","g"," ","y","o","u","r"," ","r","e",
      "q","u","e","s","t"," ","r","i","g","h","t"," ","n","o","w","."," ","P",
      "l","e","a","s","e"," ","t","r","y"," ","a","g","a","i","n",".">>


(***************************************************************************)
(* Inputs of the router                                                    *)
(***************************************************************************)
\* one entry of a conversation context (UserMessage / AssistantMessage)
Msg(source, content, body) == [source |-> source, content |-> content, body |-> body]

UserMsg(content) == Msg("user", content, <<>>)

\* conversation contexts delivered with a UserTask; the last entry is the user text
Contexts ==
    { <<>>,
      << UserMsg("") >>,
      << UserMsg("run audit 16") >>,
      << UserMsg("hello"), UserMsg("create an audit for vlans") >> }

\* confidences the classifier may report, in ten-thousandths
Confidences == {5000, 7999, 8000, 9500}

\* outcome of predict_intent: it raises, or returns (label, confidence)
ClassifierOutcomes ==
    [raises : {TRUE}, label : {"none"}, confidence : {-1}]
      \cup [raises : {FALSE}, label : Labels, confidence : Confidences]

\* "execute_audit"
RespExecute ==
    <<"e","x","e","c","u","t","e","_","a","u","d","i","t">>
\* "I classify this as EXECUTE_AUDIT"
RespExecuteProse ==
    <<"I"," ","c","l","a","s","s","i","f","y"," ","t","h","i","s"," ","a",
      "s"," ","E","X","E","C","U","T","E","_","A","U","D","I","T">>
\* "EXECUTE_AUDIT, not LIST_AUDITS"
RespExecuteNotList ==
    <<"E","X","E","C","U","T","E","_","A","U","D","I","T",","," ","n","o",
      "t"," ","L","I","S","T","_","A","U","D","I","T","S">>
\* "GET_AUDIT_HISTORY_FILTERED"
RespHistoryFiltered ==
    <<"G","E","T","_","A","U","D","I","T","_","H","I","S","T","O","R","Y",
      "_","F","I","L","T","E","R","E","D">>
\* "get_audit_history"
RespHistory ==
    <<"g","e","t","_","a","u","d","i","t","_","h","i","s","t","o","r","y">>
\* "Audit_Retrieval_By_Category"
RespByCategory ==
    <<"A","u","d","i","t","_","R","e","t","r","i","e","v","a","l","_","B",
      "y","_","C","a","t","e","g","o","r","y">>
\* "engineer_audit"
RespEngineer ==
    <<"e","n","g","i","n","e","e","r","_","a","u","d","i","t">>
\* "GENERAL: hello"
RespGeneral ==
    <<"G","E","N","E","R","A","L",":"," ","h","e","l","l","o">>
\* "execute audit"
RespNoUnderscore ==
    <<"e","x","e","c","u","t","e"," ","a","u","d","i","t">>

LLMTexts == {RespExecute, RespExecuteProse, RespExecuteNotList, RespHistoryFiltered,
             RespHistory, RespByCategory, RespEngineer, RespGeneral,
             RespNoUnderscore}

\* outcome of self._model_client.create: it raises, or returns a text
LLMOutcomes == [raises : {TRUE}, content : {<<>>}]
                 \cup [raises : {FALSE}, content : LLMTexts]

\* what the database does to insert_engineer_task
InsertOutcomes == {"inserted", "no_connection", "db_error", "rollback_raises"}

\* values of generate_user_session_id()
UserSessionIds == {"a1b2c3d4", "e5f6a7b8"}

\* rows the engineer_tasks table may hold in the model
MaxEngineerTasks == 2

(***************************************************************************)
(* OrchestratorAgent: helpers                                              *)
(***************************************************************************)
\* _extract_user_message
ExtractUserMessage(m) ==
    IF Len(m.context) > 0 THEN m.context[Len(m.context)].content ELSE ""

\* Decide without the test for the catch-all label in its second branch
DecideNoGeneralBranch(label, confidence) ==
    IF confidence >= CONFIDENCE_THRESHOLD /\ label # "GENERAL"
    THEN "CONFIDENT_SPECIFIC"
    ELSE "LOW_CONFIDENCE"

\* Decide without the test for the catch-all label in its first branch
DecideConfidenceOnly(label, confidence) ==
    IF confidence >= CONFIDENCE_THRESHOLD
    THEN "CONFIDENT_SPECIFIC"
    ELSE IF label = "GENERAL" THEN "CONFIDENT_GENERAL" ELSE "LOW_CONFIDENCE"

\* Decide with a strict comparison against the threshold
DecideStrictThreshold(label, confidence) ==
    IF confidence > CONFIDENCE_THRESHOLD /\ label # "GENERAL"
    THEN "CONFIDENT_SPECIFIC"
    ELSE IF label = "GENERAL" THEN "CONFIDENT_GENERAL" ELSE "LOW_CONFIDENCE"

\* the three-way test of handle_task on (predicted_intent, confidence)
Decide(label, confidence) ==
    IF confidence >= CONFIDENCE_THRESHOLD /\ label # "GENERAL"
    THEN "CONFIDENT_SPECIFIC"
    ELSE IF label = "GENERAL" THEN "CONFIDENT_GENERAL" ELSE "LOW_CONFIDENCE"

\* handle_with_llm whose except branch returns the empty text
HandleWithLLMEmptyOnError(out) == IF out.raises THEN <<>> ELSE out.content

\* handle_with_llm: the model's text, or the apology when the call raises
HandleWithLLM(out) == IF out.raises THEN ApologyText ELSE out.content

\* a parse that looks for the plain history keyword before the filtered one
ExtractIntentHistoryFirst(llm_text) ==
    LET response_lower == Lower(llm_text) IN
    IF Contains(response_lower, KwListAudits) THEN "LIST_AUDITS"
    ELSE IF Contains(response_lower, KwByCategory) THEN "AUDIT_RETRIEVAL_BY_CATEGORY"
    ELSE IF Contains(response_lower, KwHistory) THEN "GET_AUDIT_HISTORY"
    ELSE IF Contains(response_lower, KwHistoryFiltered) THEN "GET_AUDIT_HISTORY_FILTERED"
    ELSE IF Contains(response_lower, KwExecute) THEN "EXECUTE_AUDIT"
    ELSE IF Contains(response_lower, KwEngineer) THEN "ENGINEER_AUDIT"
    ELSE "GENERAL"

\* extract_intent_from_llm_response
ExtractIntentFromLLMResponse(llm_text) ==
    LET response_lower == Lower(llm_text) IN
    IF Contains(response_lower, KwListAudits) THEN "LIST_AUDITS"
    ELSE IF Contains(response_lower, KwByCategory) THEN "AUDIT_RETRIEVAL_BY_CATEGORY"
    ELSE IF Contains(response_lower, KwHistoryFiltered) THEN "GET_AUDIT_HISTORY_FILTERED"
    ELSE IF Contains(response_lower, KwHistory) THEN "GET_AUDIT_HISTORY"
    ELSE IF Contains(response_lower, KwExecute) THEN "EXECUTE_AUDIT"
    ELSE IF Contains(response_lower, KwEngineer) THEN "ENGINEER_AUDIT"
    ELSE "GENERAL"

\* _send_response_to_user: the context after the append, and the AgentResponse
ContextWithReply(m, content, body) ==
    Append(m.context, Msg(ORCHESTRATOR_AGENT_TOPIC, content, body))

AgentResponse(context) ==
    [context |-> context, reply_to_topic_type |-> ORCHESTRATOR_AGENT_TOPIC]

\* an action tag chosen by the first action name the intent starts with, so
\* that the filtered history is tagged as the plain history
ActionOfByPrefix(intent) ==
    CASE intent = "LIST_AUDITS" -> "list_audits"
      [] intent = "AUDIT_RETRIEVAL_BY_CATEGORY" -> "get_audits_by_category"
      [] intent \in {"GET_AUDIT_HISTORY", "GET_AUDIT_HISTORY_FILTERED"}
           -> "get_audit_history"
      [] intent = "EXECUTE_AUDIT" -> "execute_audit"
      [] OTHER -> "none"

\* the action tag route_to_agent attaches to an intent
ActionOf(intent) ==
    CASE intent = "LIST_AUDITS" -> "list_audits"
      [] intent = "AUDIT_RETRIEVAL_BY_CATEGORY" -> "get_audits_by_category"
      [] intent = "GET_AUDIT_HISTORY" -> "get_audit_history"
      [] intent = "GET_AUDIT_HISTORY_FILTERED" -> "get_audit_history_filtered"
      [] intent = "EXECUTE_AUDIT" -> "execute_audit"
      [] OTHER -> "none"

\* the topic route_to_agent publishes the delegate task to
TargetTopic(intent) ==
    IF intent \in {"LIST_AUDITS", "AUDIT_RETRIEVAL_BY_CATEGORY",
                   "GET_AUDIT_HISTORY", "GET_AUDIT_HISTORY_FILTERED"}
    THEN AUDIT_RETRIEVAL_AGENT_TOPIC
    ELSE IF intent = "EXECUTE_AUDIT" THEN EXECUTE_AUDIT_AGENT_TOPIC
    ELSE "none"

\* insert_engineer_task: the table afterwards, the returned id (none = None),
\* and whether an exception left the function
InsertEngineerTask(rows, user_id, request_description, task_type, db) ==
    IF db = "no_connection"
    THEN [rows |-> rows, none |-> TRUE, task_id |-> 0, raised |-> FALSE]
    ELSE IF user_id = "" \/ request_description = ""
    THEN [rows |-> rows, none |-> TRUE, task_id |-> 0, raised |-> FALSE]
    ELSE IF db = "inserted"
    THEN [rows |-> Append(rows, [task_id |-> Len(rows) + 1,
                                 user_id |-> user_id,
                                 request_description |-> request_description,
                                 task_type |-> task_type,
                                 status |-> "pending"]),
          none |-> FALSE, task_id |-> Len(rows) + 1, raised |-> FALSE]
    ELSE IF db = "db_error"
    THEN [rows |-> rows, none |-> TRUE, task_id |-> 0, raised |-> FALSE]
    ELSE [rows |-> rows, none |-> TRUE, task_id |-> 0, raised |-> TRUE]

\* "if task_id:" that only looks at whether the insert raised
TaskIdGivenUnlessRaised(ins) == ~ins.raised

\* "if task_id:" in route_to_agent, reached only when the insert did not raise
TaskIdGiven(ins) == ~ins.raised /\ ~ins.none /\ ins.task_id # 0

NoInsert == [none |-> TRUE, task_id |-> 0, raised |-> FALSE, called |-> FALSE]

(***************************************************************************)
(* OrchestratorAgent.handle_task                                           *)
(***************************************************************************)
\* the orchestrator right after construction, no request handled yet
\* predict_intent has not been called in this process
NoPredictions == [calls |-> 0, loads |-> 0, last |-> "none"]

\* the orchestrator has received nothing
OrchestratorIdle ==
    /\ classifier = NoPredictions
    /\ pc = "idle"
    /\ message = [context |-> <<>>]
    /\ predicted = NoPrediction
    /\ scenario_log = <<>>
    /\ llm_failed = <<>>
    /\ llm_response = <<>>
    /\ routed_intent = NoIntent
    /\ insert_result = NoInsert
    /\ to_user = <<>>
    /\ to_handlers = <<>>
    /\ user_session_id = ""
    /\ user_message = ""

OrchestratorAtRest == OrchestratorIdle /\ engineer_tasks = <<>>

\* the value extract_audit_entities has not returned yet
NoResult == [type |-> "none", success |-> FALSE, entities |-> {},
             category_audits |-> <<>>]

\* ExecutionEntityExtractor.__init__ before load_fresh_audit_data: the empty
\* containers; the audits table is empty and nothing was cached
\* no AuditEntityRecognizer has been constructed
NoRecognizer ==
    [built |-> FALSE, loaded |-> FALSE, audit_names |-> <<>>, audit_ids |-> <<>>,
     audit_categories |-> <<>>, audit_name_to_id |-> <<>>, audit_id_to_name |-> <<>>,
     alias_to_audit |-> <<>>]

\* the outcome extract_audit_entities of the recognizer has not given yet
NotRecognized == [raised |-> FALSE, entities |-> {}]

\* most messages one client sends in a session
MaxRequests == 3

\* handle_task of the execution agent is not executing an audit
NoExecution ==
    [pc |-> "none", audit_id |-> <<>>, elapsed |-> 0, looked_up |-> 0,
     on_devices |-> FALSE, success |-> FALSE, message |-> "none", status |-> "none", report_id |-> FALSE]

\* most REST requests the gateway is followed through
MaxApiRequests == 2

\* the session_id values the ChatRequests carry
ApiSessions == {"session-a", "session-b"}

\* a REST request that has not been made; resolved_by is the request whose
\* message the AgentResponse set on the future was produced for, replied
\* whether the AgentResponse for this request's message has been handled
NoRequest == [pc |-> "none", endpoint |-> "none", session |-> "none",
              started |-> 0, answered |-> FALSE, resolved_by |-> 0,
              replied |-> FALSE, ending |-> "none", status_code |-> 0]

\* no future is stored under a session_id
NoFuture == 0

\* AgentAPIServer.__init__: no request, response_handlers = {}; the dict is
\* the function from session_id to the request whose future it holds
ApiAtRest == [clock |-> 0, response_handlers |-> [s \in ApiSessions |-> NoFuture],
              requests |-> [r \in 1..MaxApiRequests |-> NoRequest]]

\* a slot of a dict that holds nothing
NoTask == [n |-> 0, content |-> <<>>, task_id |-> 0, pc |-> "none", responses |-> 0]
NoCurrentTask == [stored |-> FALSE, task_id |-> 0]
NoCodeSession == [stored |-> FALSE, mop_filename |-> <<>>, status |-> "none",
                  iteration |-> 0]
NoSessionData == [stored |-> FALSE, mop_filename |-> <<>>, status |-> "none",
                  current_code |-> 0, iterations |-> 0, saved_path |-> <<>>,
                  audit_id |-> 0, rejected_at |-> 0]

\* WebSocketEngineerAgent.__init__ and CodeGenerationAgent.__init__: no session,
\* no message under way, nothing written to the audits folder
EngineeringAtRest ==
    [task |-> NoTask,                \* the EngineerTask at hand
     current_task |-> NoCurrentTask, \* _session_states[session_id]['current_task']
     user_requests |-> {},           \* keys of _user_requests
     code_sessions |-> NoCodeSession,\* _code_sessions[session_id]
     to_codegen |-> <<>>,            \* published to CODE_GENERATION_AGENT_TOPIC
     to_engineer |-> <<>>,           \* CodeGenerationResponses published
     sessions |-> NoSessionData,     \* _sessions[session_id][mop_filename]
     files |-> {},                   \* scripts in the audits folder
     notifications |-> <<>>]         \* EngineerNotifications published

\* WebSocketResponseHandler.__init__: processed_messages = {}
ForwardingAtRest ==
    [clock |-> 0,                 \* the second datetime.now() is in
     processed_messages |-> {},   \* processed_messages[session_id]
     responses |-> <<>>,          \* contents of the AgentResponses published
     to_user_agent |-> <<>>,      \* responses on their way to the user agent
     to_handler |-> <<>>,         \* responses on their way to the handler
     to_client |-> <<>>,          \* responses written to the socket
     log |-> <<>>]                \* what the handler logged for each response

\* no service around the extractors has been called
ServicesAtRest ==
    /\ execution = NoExecution
    /\ api = ApiAtRest
    /\ engineering = EngineeringAtRest
    /\ forwarding = ForwardingAtRest

\* no text function is called on its own
NoTextCall == [fn |-> "none", a |-> <<>>, b |-> <<>>, returned |-> FALSE, out |-> <<>>]
TextAtRest == text_call = NoTextCall

\* the session is authenticated and the client has sent nothing
SessionAtRest ==
    /\ ServicesAtRest
    /\ sent = 0
    /\ accepted = 0
    /\ stage = [n \in 1..MaxRequests |-> "none"]
    /\ delivered = <<>>

ExtractorAtRest ==
    /\ SessionAtRest
    /\ recognizer = NoRecognizer
    /\ recognized = NotRecognized
    /\ db_audits = <<>>
    /\ cached_data = [loaded |-> FALSE, audits |-> <<>>]
    /\ connected = FALSE
    /\ rpc = "idle"
    /\ refreshed = FALSE
    /\ audits_data = <<>>
    /\ audit_name_to_id = <<>>
    /\ audit_id_to_name = <<>>
    /\ audit_categories = {}
    /\ category_to_audits = <<>>
    /\ input_text = <<>>
    /\ set_order = <<>>
    /\ result = NoResult

RouterInit == OrchestratorAtRest /\ ExtractorAtRest /\ TextAtRest

\* handle_task up to its first await: extraction of the user text, the
\* classifier call and the three-way decision
HandleTaskSteps(ctx, cls) ==
    /\ pc \in {"idle", "done", "raised"}
    /\ UNCHANGED resolverVars
    /\ Len(engineer_tasks) < MaxEngineerTasks
    /\ scenario_log' = <<>>
    /\ llm_failed' = <<>>
    /\ llm_response' = <<>>
    /\ insert_result' = NoInsert
    /\ to_handlers' = <<>>
    /\ user_session_id' = ""
    /\ user_message' = ""
    /\ UNCHANGED engineer_tasks
    /\ LET m == [context |-> ctx]
       IN IF ExtractUserMessage(m) = ""
          THEN /\ message' = [context |-> ContextWithReply(m, "NO_CONTENT", <<>>)]
               /\ to_user' = << AgentResponse(ContextWithReply(m, "NO_CONTENT", <<>>)) >>
               /\ predicted' = NoPrediction
               /\ routed_intent' = NoIntent
               /\ pc' = "done"
          ELSE /\ message' = m
               /\ to_user' = <<>>
               /\ IF cls.raises
                  THEN /\ predicted' = NoPrediction
                       /\ routed_intent' = NoIntent
                       /\ pc' = "raised"
                  ELSE /\ predicted' = [label |-> cls.label,
                                        confidence |-> cls.confidence]
                       /\ LET d == Decide(cls.label, cls.confidence) IN
                          /\ routed_intent' =
                                IF d = "CONFIDENT_SPECIFIC" THEN cls.label ELSE NoIntent
                          /\ pc' = CASE d = "CONFIDENT_SPECIFIC" -> "route_to_agent"
                                     [] d = "CONFIDENT_GENERAL" -> "llm_general"
                                     [] OTHER -> "llm_low_confidence"

\* handle_task with the outcome of predict_intent as its input
HandleTask(ctx, cls) ==
    /\ HandleTaskSteps(ctx, cls)
    /\ UNCHANGED classifier

\* the "low_confidence" handle_with_llm call returns; its text is parsed
LLMLowConfidence(out) ==
    /\ pc = "llm_low_confidence"
    /\ UNCHANGED <<resolverVars, classifier>>
    /\ scenario_log' = Append(scenario_log, "low_confidence")
    /\ llm_failed' = Append(llm_failed, out.raises)
    /\ llm_response' = HandleWithLLM(out)
    /\ LET clarified_intent == ExtractIntentFromLLMResponse(HandleWithLLM(out)) IN
       IF clarified_intent # "GENERAL"
       THEN /\ routed_intent' = clarified_intent
            /\ pc' = "route_to_agent"
       ELSE /\ routed_intent' = NoIntent
            /\ pc' = "llm_general"
    /\ UNCHANGED <<message, predicted, insert_result, to_user, to_handlers,
                   user_session_id, user_message, engineer_tasks>>

\* the "general" handle_with_llm call returns and its text is sent to the user
LLMGeneral(out) ==
    /\ pc = "llm_general"
    /\ UNCHANGED <<resolverVars, classifier>>
    /\ scenario_log' = Append(scenario_log, "general")
    /\ llm_failed' = Append(llm_failed, out.raises)
    /\ message' = [context |-> ContextWithReply(message, "LLM_REPLY", HandleWithLLM(out))]
    /\ to_user' = Append(to_user,
            AgentResponse(ContextWithReply(message, "LLM_REPLY", HandleWithLLM(out))))
    /\ pc' = "done"
    /\ UNCHANGED <<predicted, llm_response, routed_intent, insert_result,
                   to_handlers, user_session_id, user_message, engineer_tasks>>

\* the UserTask route_to_agent builds for the retrieval and execution handlers
DelegateTask(m, intent, text) ==
    [type |-> "UserTask",
     topic |-> TargetTopic(intent),
     context |-> m.context,
     intent |-> intent,
     action |-> ActionOf(intent),
     original_message |-> text]

\* the EngineerTask route_to_agent builds once the insert gave a task id
EngineerTaskMsg(task_id, user_id, text) ==
    [type |-> "EngineerTask",
     topic |-> ENGINEER_AGENT_TOPIC,
     task_id |-> task_id,
     user_id |-> user_id,
     audit_description |-> text,
     task_type |-> "create_new_audit"]

\* route_to_agent up to its first publish to a handler
RouteToAgent(uid, db) ==
    /\ pc = "route_to_agent"
    /\ UNCHANGED <<resolverVars, classifier>>
    /\ UNCHANGED <<predicted, scenario_log, llm_failed, llm_response, routed_intent>>
    /\ user_message' = ExtractUserMessage(message)
    /\ IF TargetTopic(routed_intent) # "none"
       THEN /\ to_handlers' = Append(to_handlers,
                    DelegateTask(message, routed_intent, ExtractUserMessage(message)))
            /\ pc' = "done"
            /\ UNCHANGED <<message, insert_result, to_user, user_session_id,
                           engineer_tasks>>
       ELSE IF routed_intent = "ENGINEER_AUDIT"
       THEN LET ins == InsertEngineerTask(engineer_tasks, uid,
                           ExtractUserMessage(message), "create_new_audit", db)
                ok == TaskIdGiven(ins)
                text == IF ok THEN "ENGINEER_FORWARDED" ELSE "ENGINEER_ERROR"
            IN /\ user_session_id' = uid
               /\ engineer_tasks' = ins.rows
               /\ insert_result' = [none |-> ins.none, task_id |-> ins.task_id,
                                    raised |-> ins.raised, called |-> TRUE]
               /\ message' = [context |-> ContextWithReply(message, text, <<>>)]
               /\ to_user' = Append(to_user,
                                AgentResponse(ContextWithReply(message, text, <<>>)))
               /\ pc' = IF ok THEN "notify_engineer" ELSE "done"
               /\ UNCHANGED to_handlers
       ELSE /\ pc' = "done"
            /\ UNCHANGED <<message, insert_result, to_user, to_handlers,
                           user_session_id, engineer_tasks>>

\* route_to_agent, engineer path: publish of the EngineerTask (a failure of the
\* publish is caught and only logged)
NotifyEngineer(publish_ok) ==
    /\ pc = "notify_engineer"
    /\ UNCHANGED <<resolverVars, classifier>>
    /\ to_handlers' =
          IF publish_ok
          THEN Append(to_handlers,
                      EngineerTaskMsg(insert_result.task_id, user_session_id, user_message))
          ELSE to_handlers
    /\ pc' = "done"
    /\ UNCHANGED <<message, predicted, scenario_log, llm_failed, llm_response,
                   routed_intent, insert_result, to_user, user_session_id,
                   user_message, engineer_tasks>>

RouterNext ==
    \/ \E ctx \in Contexts, cls \in ClassifierOutcomes : HandleTask(ctx, cls)
    \/ \E out \in LLMOutcomes : LLMLowConfidence(out)
    \/ \E out \in LLMOutcomes : LLMGeneral(out)
    \/ \E uid \in UserSessionIds, db \in InsertOutcomes : RouteToAgent(uid, db)
    \/ \E publish_ok \in BOOLEAN : NotifyEngineer(publish_ok)

SpecRouter == RouterInit /\ [][RouterNext]_vars

(***************************************************************************)
(* IntentClassifier and predict_intent                                     *)
(***************************************************************************)
\* most calls of predict_intent that are followed
MaxPredictions == 2

\* predict_intent that answers with a default when the weights cannot be
\* loaded
PredictIntentWithDefault(c, weights_ok, out) ==
    IF ~weights_ok
    THEN [cls |-> [raises |-> FALSE, label |-> "GENERAL", confidence |-> 5000],
          classifier |-> [calls |-> c.calls + 1, loads |-> c.loads,
                          last |-> "load_failed"]]
    ELSE [cls |-> out,
          classifier |-> [calls |-> c.calls + 1, loads |-> c.loads + 1,
                          last |-> IF out.raises THEN "raised" ELSE "predicted"]]

\* predict_intent(text): a new IntentClassifier, whose is_loaded is False, so
\* predict calls load_model; load_model raises when the weights or the label
\* encoder cannot be read; then the inference gives label and confidence
PredictIntent(c, weights_ok, out) ==
    IF ~weights_ok
    THEN [cls |-> [raises |-> TRUE, label |-> "none", confidence |-> -1],
          classifier |-> [calls |-> c.calls + 1, loads |-> c.loads,
                          last |-> "load_failed"]]
    ELSE [cls |-> out,
          classifier |-> [calls |-> c.calls + 1, loads |-> c.loads + 1,
                          last |-> IF out.raises THEN "raised" ELSE "predicted"]]

\* handle_task with predict_intent: the classifier is called for a message
\* that has content
HandleTaskClassifying(ctx, weights_ok, out) ==
    /\ classifier.calls < MaxPredictions
    /\ LET call == PredictIntent(classifier, weights_ok, out) IN
       /\ HandleTaskSteps(ctx, call.cls)
       /\ classifier' = IF ExtractUserMessage([context |-> ctx]) = ""
                        THEN [classifier EXCEPT !.last = "none"]
                        ELSE call.classifier

ClassifierNext ==
    \/ \E ctx \in Contexts, weights_ok \in BOOLEAN, out \in ClassifierOutcomes :
          HandleTaskClassifying(ctx, weights_ok, out)
    \/ \E out \in LLMOutcomes : LLMLowConfidence(out)
    \/ \E out \in LLMOutcomes : LLMGeneral(out)
    \/ \E uid \in UserSessionIds, db \in InsertOutcomes : RouteToAgent(uid, db)
    \/ \E publish_ok \in BOOLEAN : NotifyEngineer(publish_ok)

SpecClassifier == RouterInit /\ [][ClassifierNext]_vars

(***************************************************************************)
(* Properties of the router                                                *)
(***************************************************************************)
Classified == predicted # NoPrediction
ConfidentSpecific ==
    Classified /\ predicted.confidence >= CONFIDENCE_THRESHOLD
               /\ predicted.label # "GENERAL"
ClassifiedGeneral == Classified /\ predicted.label = "GENERAL"
LowConfidence ==
    Classified /\ predicted.confidence < CONFIDENCE_THRESHOLD
               /\ predicted.label # "GENERAL"
ParsedLabel == ExtractIntentFromLLMResponse(llm_response)
LastReply(resp) == resp.context[Len(resp.context)]

\* the edges of handle_task's control flow
RouterEdges ==
    ({"idle", "done", "raised"}
        \X {"done", "raised", "route_to_agent", "llm_general", "llm_low_confidence"})
    \cup {<<"llm_low_confidence", "route_to_agent">>,
          <<"llm_low_confidence", "llm_general">>,
          <<"llm_general", "done">>,
          <<"route_to_agent", "done">>,
          <<"route_to_agent", "notify_engineer">>,
          <<"notify_engineer", "done">>}

RouterStepAllowed == <<pc, pc'>> \in RouterEdges

\* C1: once the classifier has returned (label, confidence), handle_task is in
\* exactly one of three branches fixed by them and the threshold: direct
\* dispatch of the label with no LLM call iff confidence >= threshold and label
\* is not GENERAL; the general LLM reply iff label is GENERAL; LLM
\* classification otherwise, which goes on either to the dispatch of the parsed
\* label or to the general LLM reply; control never moves along any other edge.
C1_BranchByClassifier ==
    /\ [](ConfidentSpecific =>
            /\ scenario_log = <<>>
            /\ routed_intent = predicted.label
            /\ pc \in {"route_to_agent", "notify_engineer", "done"})
    /\ [](ClassifiedGeneral =>
            /\ routed_intent = NoIntent
            /\ \/ scenario_log = <<>> /\ pc = "llm_general"
               \/ scenario_log = <<"general">> /\ pc = "done")
    /\ [](LowConfidence =>
            \/ /\ scenario_log = <<>>
               /\ pc = "llm_low_confidence"
               /\ routed_intent = NoIntent
            \/ /\ scenario_log = <<"low_confidence">>
               /\ ParsedLabel # "GENERAL"
               /\ routed_intent = ParsedLabel
               /\ pc \in {"route_to_agent", "notify_engineer", "done"}
            \/ /\ scenario_log = <<"low_confidence">>
               /\ ParsedLabel = "GENERAL"
               /\ routed_intent = NoIntent
               /\ pc = "llm_general"
            \/ /\ scenario_log = <<"low_confidence", "general">>
               /\ ParsedLabel = "GENERAL"
               /\ routed_intent = NoIntent
               /\ pc = "done")
    /\ [][RouterStepAllowed]_vars

\* a low-confidence request that ended in the dispatch of the label the LLM named
C1_Witness ==
    /\ LowConfidence
    /\ predicted.label = "LIST_AUDITS"
    /\ pc = "done"
    /\ scenario_log = <<"low_confidence">>
    /\ routed_intent = "EXECUTE_AUDIT"
    /\ Len(to_handlers) = 1

\* C2: every request handle_task has finished with (by returning or by an
\* exception) has produced at least one AgentResponse to the user or one task
\* to a handler.
C2_AlwaysAnOutcome ==
    pc \in {"done", "raised"} => Len(to_user) + Len(to_handlers) >= 1

\* C3: when the classifier says GENERAL (at any confidence), or the request is
\* low-confidence and the LLM's classification parses to GENERAL, nothing is
\* published to a handler and no dispatch happens; the finished request has
\* sent the user exactly one message, the general LLM reply.
C3_GeneralNeverDispatched ==
    (\/ ClassifiedGeneral
     \/ LowConfidence /\ Len(scenario_log) >= 1 /\ ParsedLabel = "GENERAL")
    => /\ to_handlers = <<>>
       /\ routed_intent = NoIntent
       /\ ~insert_result.called
       /\ pc = "done" =>
            /\ Len(to_user) = 1
            /\ LastReply(to_user[1]).content = "LLM_REPLY"
            /\ scenario_log[Len(scenario_log)] = "general"

\* GENERAL at a confidence above the threshold, answered by the general LLM
C3_Witness ==
    /\ ClassifiedGeneral
    /\ predicted.confidence >= CONFIDENCE_THRESHOLD
    /\ pc = "done"
    /\ Len(to_user) = 1
    /\ to_handlers = <<>>

\* C4: a non-GENERAL label with confidence >= threshold is dispatched as that
\* label with zero LLM calls: route_to_agent gets the label, and when it has
\* finished, exactly one task went to the topic of that label (for
\* ENGINEER_AUDIT: the work-item insert was attempted, and at most one
\* EngineerTask went out).
C4_ConfidentDispatchWithoutLLM ==
    ConfidentSpecific =>
        /\ scenario_log = <<>>
        /\ llm_failed = <<>>
        /\ routed_intent = predicted.label
        /\ pc = "done" =>
             IF predicted.label = "ENGINEER_AUDIT"
             THEN /\ insert_result.called
                  /\ Len(to_handlers) <= 1
                  /\ \A i \in DOMAIN to_handlers :
                        to_handlers[i].topic = ENGINEER_AGENT_TOPIC
             ELSE /\ Len(to_handlers) = 1
                  /\ to_handlers[1].topic = INTENT_MAPPING[predicted.label]
                  /\ to_handlers[1].intent = predicted.label
                  /\ to_user = <<>>

\* EXECUTE_AUDIT exactly at the threshold, dispatched to the execution handler
C4_Witness ==
    /\ Classified
    /\ predicted.label = "EXECUTE_AUDIT"
    /\ predicted.confidence = CONFIDENCE_THRESHOLD
    /\ pc = "done"
    /\ Len(to_handlers) = 1
    /\ to_handlers[1].topic = EXECUTE_AUDIT_AGENT_TOPIC
    /\ scenario_log = <<>>

\* C5: a low-confidence non-GENERAL request calls the classification LLM, and
\* whenever the text it returned contains "execute_audit" (case-insensitively)
\* the finished request has published one task to the execution handler with
\* action execute_audit.
C5_ExecuteKeywordDispatches ==
    (LowConfidence /\ pc = "done")
    => /\ Len(scenario_log) >= 1
       /\ scenario_log[1] = "low_confidence"
       /\ Contains(Lower(llm_response), KwExecute) =>
            /\ Len(to_handlers) = 1
            /\ to_handlers[1].topic = EXECUTE_AUDIT_AGENT_TOPIC
            /\ to_handlers[1].action = "execute_audit"

\* C6: an EngineerTask is published only after insert_engineer_task returned an
\* id, and that id is a row of the table; nothing is published before the
\* insert; when the insert gave no id or raised, no EngineerTask goes out. The
\* finished request has sent the user exactly one message: the success text iff
\* the insert gave an id, the error text otherwise.
C6_PersistBeforeNotify ==
    /\ \A i \in DOMAIN to_handlers :
          to_handlers[i].type = "EngineerTask" =>
             /\ insert_result.called /\ ~insert_result.none /\ ~insert_result.raised
             /\ to_handlers[i].task_id = insert_result.task_id
             /\ \E r \in DOMAIN engineer_tasks :
                   /\ engineer_tasks[r].task_id = to_handlers[i].task_id
                   /\ engineer_tasks[r].request_description
                         = to_handlers[i].audit_description
             /\ Len(to_user) = 1
    /\ (routed_intent = "ENGINEER_AUDIT" /\ pc = "route_to_agent")
          => to_handlers = <<>> /\ ~insert_result.called
    /\ (routed_intent = "ENGINEER_AUDIT" /\ pc \in {"notify_engineer", "done"})
          => /\ insert_result.called
             /\ Len(to_user) = 1
             /\ LastReply(to_user[1]).content =
                   (IF \E r \in DOMAIN engineer_tasks :
                          /\ ~insert_result.none
                          /\ engineer_tasks[r].task_id = insert_result.task_id
                    THEN "ENGINEER_FORWARDED" ELSE "ENGINEER_ERROR")
             /\ (insert_result.none \/ insert_result.raised)
                   => to_handlers = <<>> /\ pc = "done"

\* the insert succeeded and the EngineerTask carrying its id went out
C6_Witness ==
    /\ routed_intent = "ENGINEER_AUDIT"
    /\ pc = "done"
    /\ Len(to_handlers) = 1
    /\ to_handlers[1].type = "EngineerTask"
    /\ to_handlers[1].task_id = Len(engineer_tasks)
    /\ LastReply(to_user[1]).content = "ENGINEER_FORWARDED"

\* C7: when the model client raises, handle_with_llm yields the apology text,
\* handle_task does not end in an exception and the finished request has sent
\* the user a response; a failed classification call is parsed as GENERAL, so
\* no dispatch follows, and a failed general call sends the apology itself.
C7_LLMFailureIsApology ==
    \A i \in DOMAIN llm_failed :
       llm_failed[i] =>
          /\ pc # "raised"
          /\ pc = "done" => Len(to_user) = 1
          /\ scenario_log[i] = "low_confidence" =>
                /\ llm_response = ApologyText
                /\ routed_intent = NoIntent
                /\ to_handlers = <<>>
                /\ ~insert_result.called
                /\ pc \in {"llm_general", "done"}
          /\ scenario_log[i] = "general" =>
                /\ pc = "done"
                /\ LastReply(to_user[1]).content = "LLM_REPLY"
                /\ LastReply(to_user[1]).body = ApologyText

\* both LLM calls of a low-confidence request failed; the user got the apology
C7_Witness ==
    /\ LowConfidence
    /\ pc = "done"
    /\ llm_failed = <<TRUE, TRUE>>
    /\ Len(to_user) = 1
    /\ LastReply(to_user[1]).body = ApologyText
    /\ to_handlers = <<>>

(***************************************************************************)
(* ExecutionEntityExtractor: text primitives                               *)
(***************************************************************************)
Digits == {"0","1","2","3","4","5","6","7","8","9"}
Whitespace == {" ", "\t", "\n"}

\* \s of the re module
IsSpace(c) == c \in Whitespace

\* \w of the re module
Letters == {LowerCase[i] : i \in 1..Len(LowerCase)} \cup
           {UpperCase[i] : i \in 1..Len(UpperCase)} \cup {CapitalIDot}

IsWordChar(c) == c \in Digits \/ c = "_" \/ c \in Letters

\* last position of the run of non-whitespace that position i is in
RECURSIVE WordEnd(_, _)
WordEnd(s, i) ==
    IF i = Len(s) \/ IsSpace(s[i + 1]) THEN i ELSE WordEnd(s, i + 1)

\* str.split(): the maximal runs of non-whitespace, from position i on
RECURSIVE SplitFrom(_, _)
SplitFrom(s, i) ==
    IF i > Len(s) THEN <<>>
    ELSE IF IsSpace(s[i]) THEN SplitFrom(s, i + 1)
    ELSE <<SubSeq(s, i, WordEnd(s, i))>> \o SplitFrom(s, WordEnd(s, i) + 1)

Split(s) == SplitFrom(s, 1)

\* ' '.join(words)
RECURSIVE Join(_)
Join(words) ==
    IF Len(words) = 0 THEN <<>>
    ELSE IF Len(words) = 1 THEN words[1]
    ELSE words[1] \o <<" ">> \o Join(Tail(words))

\* re.sub(r'[^\w\s]', ' ', text)
RECURSIVE SubNonWordBySpace(_)
SubNonWordBySpace(text) ==
    IF text = <<>> THEN <<>>
    ELSE <<IF IsWordChar(Head(text)) \/ IsSpace(Head(text)) THEN Head(text) ELSE " ">>
         \o SubNonWordBySpace(Tail(text))

\* preprocess_text
PreprocessText(text) == Lower(Join(Split(SubNonWordBySpace(text))))

(***************************************************************************)
(* difflib.SequenceMatcher(None, a, b).ratio() without junk; the words     *)
(* compared are far shorter than the 200 elements at which autojunk acts.  *)
(* Index ranges are inclusive.                                             *)
(***************************************************************************)
\* length of the common run of a from i and b from j inside the windows
RECURSIVE RunLength(_, _, _, _, _, _)
RunLength(a, b, i, j, ahi, bhi) ==
    IF i > ahi \/ j > bhi THEN 0
    ELSE IF a[i] # b[j] THEN 0
    ELSE 1 + RunLength(a, b, i + 1, j + 1, ahi, bhi)

\* the longest run that starts at a[i] and at some b[j..bhi], the least
\* such column for equal lengths: <<i, j, k>>
RECURSIVE LongestInRow(_, _, _, _, _, _)
LongestInRow(a, b, i, j, ahi, bhi) ==
    IF j > bhi THEN <<i, j, 0>>
    ELSE LET k == RunLength(a, b, i, j, ahi, bhi)
             rest == LongestInRow(a, b, i, j + 1, ahi, bhi)
         IN IF k >= rest[3] THEN <<i, j, k>> ELSE rest

\* the longest run that starts in a[i..ahi], the least row for equal lengths
RECURSIVE LongestFrom(_, _, _, _, _, _)
LongestFrom(a, b, i, ahi, blo, bhi) ==
    IF i > ahi THEN <<i, blo, 0>>
    ELSE LET row == LongestInRow(a, b, i, blo, ahi, bhi)
             rest == LongestFrom(a, b, i + 1, ahi, blo, bhi)
         IN IF row[3] >= rest[3] THEN row ELSE rest

\* find_longest_match: <<i, j, k>> with k maximal, then i least, then j least
FindLongestMatch(a, b, alo, ahi, blo, bhi) ==
    LET m == LongestFrom(a, b, alo, ahi, blo, bhi)
    IN IF m[3] = 0 THEN <<alo, blo, 0>> ELSE m

\* sum of the sizes of get_matching_blocks
RECURSIVE MatchingSize(_, _, _, _, _, _)
MatchingSize(a, b, alo, ahi, blo, bhi) ==
    IF alo > ahi \/ blo > bhi THEN 0
    ELSE LET m == FindLongestMatch(a, b, alo, ahi, blo, bhi)
         IN IF m[3] = 0 THEN 0
            ELSE m[3] + MatchingSize(a, b, alo, m[1] - 1, blo, m[2] - 1)
                      + MatchingSize(a, b, m[1] + m[3], ahi, m[2] + m[3], bhi)

\* ratio() as the exact fraction 2*M / T (1.0 when both are empty)
Ratio(a, b) ==
    IF Len(a) + Len(b) = 0 THEN [num |-> 1, den |-> 1]
    ELSE [num |-> 2 * MatchingSize(a, b, 1, Len(a), 1, Len(b)),
          den |-> Len(a) + Len(b)]

(***************************************************************************)
(* The audits table and database.py                                        *)
(***************************************************************************)
\* rows the engineering workflow may have put in the audits table:
\* audit_id is the integer key, the names and categories are free text
Audit16 == [audit_id |-> 16,
            audit_name |-> <<"C","i","s","c","o"," ","A","u","d","i","t"," ","N","e","w">>,
            category |-> <<"N","e","t","w","o","r","k">>]
Audit17 == [audit_id |-> 17,
            audit_name |-> <<"R","o","u","t","e","r"," ","S","e","c","u","r","i","t","y",
                             " ","A","u","d","i","t">>,
            category |-> <<"S","e","c","u","r","i","t","y">>]
Audit18 == [audit_id |-> 18,
            audit_name |-> <<"S","w","i","t","c","h"," ","P","o","r","t"," ",
                             "S","t","a","t","u","s">>,
            category |-> <<"n","e","t","w","o","r","k">>]
\* in the order the engineering workflow adds them (audit_id is a serial)
AuditPool == <<Audit16, Audit17, Audit18>>

\* Python's None, which is no str
None == <<"None">>

\* a row written to the table with category NULL, after the rows of the pool
AuditNull == [audit_id |-> 19,
              audit_name |-> <<"V","l","a","n"," ","C","h","e","c","k">>,
              category |-> None]

\* most rows the audits table holds
MaxAudits == 2

\* INSERT of one row, the table read back ORDER BY audit_id
RECURSIVE InsertOrdered(_, _)
InsertOrdered(rows, row) ==
    IF rows = <<>> THEN <<row>>
    ELSE IF row.audit_id < Head(rows).audit_id THEN <<row>> \o rows
    ELSE <<Head(rows)>> \o InsertOrdered(Tail(rows), row)

DigitChars == <<"0","1","2","3","4","5","6","7","8","9">>

\* Python's str(n) of a non-negative int
RECURSIVE Str(_)
Str(n) ==
    IF n < 10 THEN <<DigitChars[n + 1]>>
    ELSE Str(n \div 10) \o <<DigitChars[(n % 10) + 1]>>

\* int() of a string of digits
RECURSIVE IntOf(_)
IntOf(digits) ==
    IF digits = <<>> THEN 0
    ELSE 10 * IntOf(SubSeq(digits, 1, Len(digits) - 1))
         + (CHOOSE d \in 0..9 : DigitChars[d + 1] = digits[Len(digits)])

\* load_audits_data_from_db: [] when there is no connection or the query
\* fails, else one dict per row with audit_id = str(row[0]); a NULL category
\* is handed on as None
LoadAuditsDataFromDb(rows, reachable) ==
    IF ~reachable THEN <<>>
    ELSE [i \in 1..Len(rows) |->
            [audit_id |-> Str(rows[i].audit_id),
             audit_name |-> rows[i].audit_name,
             audit_category |-> rows[i].category]]

\* refresh_all_data: the new value of _cached_data, which is also returned;
\* it is stored whatever load_audits_data_from_db gave
RefreshAllData(rows, reachable) ==
    [loaded |-> TRUE, audits |-> LoadAuditsDataFromDb(rows, reachable)]

\* get_cached_data: _cached_data, None when nothing was loaded
GetCachedData(cache) == cache

(***************************************************************************)
(* Texts handed to extract_audit_entities                                  *)
(***************************************************************************)
\* how a request starts: nothing, a verb of pattern 4, a category word
TextLeads ==
    {<<>>,
     <<"r","u","n">>,
     <<"S","h","o","w"," ","n","e","t","w","o","r","k">>}

\* its middle: the word audit, misspelt and exact names, misspelt categories
TextBodies ==
    {<<>>,
     <<"a","u","d","i","t">>,
     <<"c","i","s","k","o"," ","a","u","d","i","t">>,
     <<"c","i","s","k","o"," ","s","e","c","u","r","t","y"," ","a","u","d","i","t">>,
     <<"C","i","s","c","o","-","A","u","d","i","t"," ","N","e","w","!">>,
     <<"s","e","c","u","r","t","y">>,
     <<"n","e","t","w","r","k"," ","s","e","c","u","r","t","y">>}

\* its end: ids known or not, with a leading zero, as an ordinal, two ids
TextTails ==
    {<<>>,
     <<"1","6">>,
     <<"9","9">>,
     <<"0","1","6">>,
     <<"i","d"," ","1","7">>,
     <<"1","6","t","h"," ","a","u","d","i","t">>,
     <<"1","7"," ","a","u","d","i","t"," ","1","6">>}

\* the raw texts: the three parts with a space between them (the empty parts
\* leave leading, trailing and doubled spaces)
Texts == {l \o <<" ">> \o b \o <<" ">> \o e :
             l \in TextLeads, b \in TextBodies, e \in TextTails}

\* the tables the extractor may be constructed against: empty, or one audit
InitialTables == {<<>>, <<AuditPool[1]>>}

(***************************************************************************)
(* ExecutionEntityExtractor.similarity                                     *)
(***************************************************************************)
\* similarity
Similarity(a, b) == Ratio(Lower(a), Lower(b))

\* similarity(a, b) >= self.fuzzy_threshold, with fuzzy_threshold = 0.70
AtLeastFuzzyThreshold(r) == 100 * r.num >= 70 * r.den

(***************************************************************************)
(* Python dicts in insertion order: sequences of [key, value]              *)
(***************************************************************************)
DictHas(d, k) == \E i \in 1..Len(d) : d[i].key = k
DictGet(d, k) == d[CHOOSE i \in 1..Len(d) : d[i].key = k].value
\* d[k] = v: a known key keeps its place
DictSet(d, k, v) ==
    IF DictHas(d, k)
    THEN [i \in 1..Len(d) |-> IF d[i].key = k THEN [key |-> k, value |-> v] ELSE d[i]]
    ELSE Append(d, [key |-> k, value |-> v])

(***************************************************************************)
(* ExecutionEntityExtractor: data loading                                  *)
(***************************************************************************)
\* the five containers of the extractor as one value
Extractor(a, n2i, i2n, cats, c2a) ==
    [audits_data |-> a, audit_name_to_id |-> n2i, audit_id_to_name |-> i2n,
     audit_categories |-> cats, category_to_audits |-> c2a]

\* the loop of _build_lookup_maps from audit number i on: the extractor it
\* leaves and whether it raised; audit_category.lower() raises on None, after
\* the two name maps were given the audit
RECURSIVE BuildFrom(_, _)
BuildFrom(x, i) ==
    IF i > Len(x.audits_data) THEN [self |-> x, raised |-> FALSE]
    ELSE LET audit == x.audits_data[i]
             audit_id == audit.audit_id
             audit_name == audit.audit_name
             audit_category == audit.audit_category
             named == Extractor(x.audits_data,
                          DictSet(x.audit_name_to_id, Lower(audit_name), audit_id),
                          DictSet(x.audit_id_to_name, audit_id, audit_name),
                          x.audit_categories,
                          x.category_to_audits)
             cat == Lower(audit_category)
             old == IF DictHas(x.category_to_audits, cat)
                    THEN DictGet(x.category_to_audits, cat) ELSE <<>>
         IN IF audit_category = None THEN [self |-> named, raised |-> TRUE]
            ELSE BuildFrom(
                    Extractor(named.audits_data,
                              named.audit_name_to_id,
                              named.audit_id_to_name,
                              named.audit_categories \cup {cat},
                              DictSet(named.category_to_audits, cat, Append(old, audit))),
                    i + 1)

\* _build_lookup_maps: nothing when audits_data is empty, else the maps are
\* cleared and rebuilt from audits_data
BuildLookupMaps(x) ==
    IF x.audits_data = <<>> THEN [self |-> x, raised |-> FALSE]
    ELSE BuildFrom(Extractor(x.audits_data, <<>>, <<>>, {}, <<>>), 1)

\* _try_cached_fallback: an exception of the build is caught and leaves
\* audits_data empty
TryCachedFallback(x, cache) ==
    IF GetCachedData(cache).loaded /\ GetCachedData(cache).audits # <<>>
    THEN LET built == BuildLookupMaps([x EXCEPT !.audits_data = GetCachedData(cache).audits])
         IN IF built.raised THEN [built.self EXCEPT !.audits_data = <<>>]
            ELSE built.self
    ELSE [x EXCEPT !.audits_data = <<>>]

\* load_fresh_audit_data, given what refresh_all_data returned and what
\* _cached_data holds once it has returned
LoadFreshAuditData(x, fresh, cache) ==
    IF fresh.audits # <<>>
    THEN LET built == BuildLookupMaps([x EXCEPT !.audits_data = fresh.audits])
         IN IF built.raised THEN TryCachedFallback(built.self, cache)
            ELSE built.self
    ELSE TryCachedFallback(x, cache)

\* refresh_data_if_needed, given what refresh_all_data returned: the extractor
\* it leaves and the value it returns; the snapshot is replaced only by a
\* non-empty list of audits, an exception of the build is caught
RefreshDataIfNeeded(x, fresh_data) ==
    IF fresh_data.audits # <<>>
    THEN LET built == BuildLookupMaps([x EXCEPT !.audits_data = fresh_data.audits])
         IN [self |-> built.self, returned |-> ~built.raised]
    ELSE [self |-> x, returned |-> FALSE]

(***************************************************************************)
(* extract_audit_entities, stage 1: the audit_id_patterns                  *)
(*                                                                         *)
(* text_clean has only word characters and single spaces, so \b falls on   *)
(* the edges of its words and \s+ is one space: a pattern is matched word  *)
(* by word.  re.findall gives the captures of a pattern from left to right.*)
(***************************************************************************)
WordAudit == <<"a","u","d","i","t">>
WordId == <<"i","d">>
WordExecute == <<"e","x","e","c","u","t","e">>
WordRun == <<"r","u","n">>
WordStart == <<"s","t","a","r","t">>
WordLaunch == <<"l","a","u","n","c","h">>
OrdinalSuffixes == {<<"s","t">>, <<"n","d">>, <<"r","d">>, <<"t","h">>}

\* the seven patterns, in the order of the list: a keyword, an optional
\* second word, then the digits; the last is  <digits>[st|nd|rd|th] audit
audit_id_patterns ==
    << [ordinal |-> FALSE, keyword |-> WordAudit,   optional |-> WordId],
       [ordinal |-> FALSE, keyword |-> WordId,      optional |-> <<>>],
       [ordinal |-> FALSE, keyword |-> WordExecute, optional |-> WordAudit],
       [ordinal |-> FALSE, keyword |-> WordRun,     optional |-> WordAudit],
       [ordinal |-> FALSE, keyword |-> WordStart,   optional |-> WordAudit],
       [ordinal |-> FALSE, keyword |-> WordLaunch,  optional |-> WordAudit],
       [ordinal |-> TRUE,  keyword |-> WordAudit,   optional |-> <<>>] >>

\* (\d+)\b : a whole word of digits
IsDigits(w) == Len(w) > 0 /\ \A i \in 1..Len(w) : w[i] \in Digits

\* length of the longest run of digits w starts with
RECURSIVE LeadingDigits(_)
LeadingDigits(w) ==
    IF w = <<>> \/ Head(w) \notin Digits THEN 0 ELSE 1 + LeadingDigits(Tail(w))

\* \bkeyword\s+(?:optional\s+)?(\d+)\b  at word i: <<capture>> or <<>>
KeywordCapture(words, i, p) ==
    IF words[i] # p.keyword THEN <<>>
    ELSE IF /\ p.optional # <<>>
            /\ i + 2 <= Len(words)
            /\ words[i + 1] = p.optional
            /\ IsDigits(words[i + 2])
         THEN <<words[i + 2]>>
    ELSE IF i + 1 <= Len(words) /\ IsDigits(words[i + 1])
         THEN <<words[i + 1]>>
    ELSE <<>>

\* \b(\d+)(?:st|nd|rd|th)?\s*audit\b  at word i: <<capture>> or <<>>
OrdinalCapture(words, i) ==
    LET w == words[i]
        n == LeadingDigits(w)
        rest == SubSeq(w, n + 1, Len(w))
        \* what may follow the digits once the optional suffix is taken
        tails == {rest} \cup
                 {SubSeq(rest, 3, Len(rest)) : sfx \in
                     {x \in OrdinalSuffixes : Len(rest) >= 2 /\ SubSeq(rest, 1, 2) = x}}
    IN IF n = 0 THEN <<>>
       ELSE IF \E t \in tails :
                  \/ t = WordAudit
                  \/ t = <<>> /\ i + 1 <= Len(words) /\ words[i + 1] = WordAudit
            THEN <<SubSeq(w, 1, n)>>
       ELSE <<>>

\* re.findall(pattern, text_clean) over the words from word i on
RECURSIVE FindAllFrom(_, _, _)
FindAllFrom(p, words, i) ==
    IF i > Len(words) THEN <<>>
    ELSE (IF p.ordinal THEN OrdinalCapture(words, i) ELSE KeywordCapture(words, i, p))
         \o FindAllFrom(p, words, i + 1)

FindAll(p, text_clean) == FindAllFrom(p, Split(text_clean), 1)

\* the captures of a list that are keys of audit_id_to_name, in order
KnownCaptures(x, captures) ==
    SelectSeq(captures, LAMBDA m : DictHas(x.audit_id_to_name, m))

Exact == [num |-> 1, den |-> 1]
Fuzzy == [num |-> 85, den |-> 100]

Entity(kind, value, confidence) ==
    [kind |-> kind, value |-> value, confidence |-> confidence]

SpecificAudit(audit_id, audit_name, confidence) ==
    [type |-> "specific_audit", success |-> TRUE,
     entities |-> {Entity("audit_id", audit_id, confidence),
                   Entity("audit_name", audit_name, confidence)},
     category_audits |-> <<>>]

\* a stage that found nothing
Nothing == [hit |-> FALSE, result |-> NoResult]
Found(r) == [hit |-> TRUE, result |-> r]

\* stage 1 from pattern number k on: the first capture, of the first pattern
\* that has one, that is a key of audit_id_to_name
RECURSIVE ExactIdFrom(_, _, _)
ExactIdFrom(x, text_clean, k) ==
    IF k > Len(audit_id_patterns) THEN Nothing
    ELSE LET known == KnownCaptures(x, FindAll(audit_id_patterns[k], text_clean))
         IN IF known # <<>>
            THEN Found(SpecificAudit(known[1], DictGet(x.audit_id_to_name, known[1]),
                                     Exact))
            ELSE ExactIdFrom(x, text_clean, k + 1)

\* a stage 1 that ends the cascade with no_match when the text has captures
\* but none of them is a known id
ExactIdEndsOnUnknown(x, text_clean) ==
    IF ExactIdFrom(x, text_clean, 1).hit THEN ExactIdFrom(x, text_clean, 1)
    ELSE IF \E k \in 1..Len(audit_id_patterns) :
               FindAll(audit_id_patterns[k], text_clean) # <<>>
         THEN [hit |-> TRUE,
               result |-> [type |-> "no_match", success |-> FALSE, entities |-> {},
                           category_audits |-> <<>>]]
    ELSE Nothing

ExactId(x, text_clean) == ExactIdFrom(x, text_clean, 1)

(***************************************************************************)
(* extract_audit_entities, stages 2 to 5                                   *)
(***************************************************************************)
\* get_audits_by_category
GetAuditsByCategory(x, category) ==
    IF DictHas(x.category_to_audits, Lower(category))
    THEN DictGet(x.category_to_audits, Lower(category))
    ELSE <<>>

\* a clarification that lists every audit, whatever its category
CategoryClarificationAllAudits(x, category, confidence) ==
    [type |-> "category_clarification", success |-> TRUE,
     entities |-> {Entity("audit_category", category, confidence)},
     category_audits |-> x.audits_data]

CategoryClarification(x, category, confidence) ==
    [type |-> "category_clarification", success |-> TRUE,
     entities |-> {Entity("audit_category", category, confidence)},
     category_audits |-> GetAuditsByCategory(x, category)]

\* the orders in which a set can be iterated
Orders(S) ==
    {o \in [1..Cardinality(S) -> S] : \A i, j \in 1..Cardinality(S) : o[i] = o[j] => i = j}

\* stage 2: the first key of audit_name_to_id that is a substring of the text;
\* the value reported is the key, the id is the one the key maps to
ExactName(x, text_clean) ==
    LET d == x.audit_name_to_id
        hits == {i \in 1..Len(d) : Contains(text_clean, d[i].key)}
    IN IF hits = {} THEN Nothing
       ELSE LET i == CHOOSE h \in hits : \A g \in hits : h <= g
            IN Found(SpecificAudit(d[i].value, d[i].key, Exact))

\* stage 3: the first category, in the order the set is iterated, that is a
\* substring of the text
ExactCategory(x, text_clean, order) ==
    LET hits == {i \in 1..Len(order) : Contains(text_clean, order[i])}
    IN IF hits = {} THEN Nothing
       ELSE LET i == CHOOSE h \in hits : \A g \in hits : h <= g
            IN Found(CategoryClarification(x, order[i], Exact))

\* stage 4, one name: matches / len(audit_words), 0 for a name without words
MatchPercentage(audit_name, text_clean) ==
    LET audit_words == Split(audit_name)
        text_words == Split(text_clean)
        matches == Cardinality(
            {a \in 1..Len(audit_words) :
                \E t \in 1..Len(text_words) :
                    AtLeastFuzzyThreshold(Similarity(audit_words[a], text_words[t]))})
    IN IF audit_words = <<>> THEN [num |-> 0, den |-> 1]
       ELSE [num |-> matches, den |-> Len(audit_words)]

FracLess(p, q) == p.num * q.den < q.num * p.den
FracTimes(p, q) == [num |-> p.num * q.num, den |-> p.den * q.den]
Half == [num |-> 1, den |-> 2]

\* the loop of stage 4 with >= in place of >, so that the last of equals wins
RECURSIVE BestNameFromLastOnTies(_, _, _, _)
BestNameFromLastOnTies(x, text_clean, i, best) ==
    IF i > Len(x.audit_name_to_id) THEN best
    ELSE LET audit_name == x.audit_name_to_id[i].key
             match_percentage == MatchPercentage(audit_name, text_clean)
         IN IF ~FracLess(match_percentage, best.score) /\ ~FracLess(match_percentage, Half)
            THEN BestNameFromLastOnTies(x, text_clean, i + 1,
                     [found |-> TRUE, name |-> audit_name, score |-> match_percentage])
            ELSE BestNameFromLastOnTies(x, text_clean, i + 1, best)

\* stage 4, the loop over the names from key number i on, with the best so far
RECURSIVE BestNameFrom(_, _, _, _)
BestNameFrom(x, text_clean, i, best) ==
    IF i > Len(x.audit_name_to_id) THEN best
    ELSE LET audit_name == x.audit_name_to_id[i].key
             match_percentage == MatchPercentage(audit_name, text_clean)
         IN IF FracLess(best.score, match_percentage) /\ ~FracLess(match_percentage, Half)
            THEN BestNameFrom(x, text_clean, i + 1,
                     [found |-> TRUE, name |-> audit_name, score |-> match_percentage])
            ELSE BestNameFrom(x, text_clean, i + 1, best)

NoBestName == [found |-> FALSE, name |-> <<>>, score |-> [num |-> 0, den |-> 1]]

FuzzyName(x, text_clean) ==
    LET best == BestNameFrom(x, text_clean, 1, NoBestName)
    IN IF ~best.found THEN Nothing
       ELSE Found(SpecificAudit(DictGet(x.audit_name_to_id, best.name), best.name,
                                FracTimes(Fuzzy, best.score)))

\* stage 5: the first category, in the order the set is iterated, that some
\* word of the text resembles
FuzzyCategory(x, text_clean, order) ==
    LET text_words == Split(text_clean)
        hits == {i \in 1..Len(order) :
                    \E t \in 1..Len(text_words) :
                        AtLeastFuzzyThreshold(Similarity(text_words[t], order[i]))}
    IN IF hits = {} THEN Nothing
       ELSE LET i == CHOOSE h \in hits : \A g \in hits : h <= g
            IN Found(CategoryClarification(x, order[i], Fuzzy))

NoMatch == [type |-> "no_match", success |-> FALSE, entities |-> {},
            category_audits |-> <<>>]
NoData == [type |-> "no_data", success |-> FALSE, entities |-> {},
           category_audits |-> <<>>]

\* a cascade that tries the fuzzy names before the exact categories
StagesFuzzyNameFirst(x, text_clean, order) ==
    LET exact_name == ExactName(x, text_clean)
        exact_category == ExactCategory(x, text_clean, order)
        fuzzy_name == FuzzyName(x, text_clean)
        fuzzy_category == FuzzyCategory(x, text_clean, order)
    IN IF exact_name.hit THEN exact_name.result
       ELSE IF fuzzy_name.hit THEN fuzzy_name.result
       ELSE IF exact_category.hit THEN exact_category.result
       ELSE IF fuzzy_category.hit THEN fuzzy_category.result
       ELSE NoMatch

\* lines 232 to 306: what follows stage 1 when it returned nothing
StagesAfterExactId(x, text_clean, order) ==
    LET exact_name == ExactName(x, text_clean)
        exact_category == ExactCategory(x, text_clean, order)
        fuzzy_name == FuzzyName(x, text_clean)
        fuzzy_category == FuzzyCategory(x, text_clean, order)
    IN IF exact_name.hit THEN exact_name.result
       ELSE IF exact_category.hit THEN exact_category.result
       ELSE IF fuzzy_name.hit THEN fuzzy_name.result
       ELSE IF fuzzy_category.hit THEN fuzzy_category.result
       ELSE NoMatch

\* a cascade that looks at audits_data only once stage 1 found nothing
ResolveNoDataAfterExactId(x, text_clean, order) ==
    LET exact_id == ExactId(x, text_clean)
    IN IF exact_id.hit THEN exact_id.result
       ELSE IF x.audits_data = <<>> THEN NoData
       ELSE StagesAfterExactId(x, text_clean, order)

\* lines 200 to 306, on the containers the refresh left
Resolve(x, text_clean, order) ==
    LET exact_id == ExactId(x, text_clean)
    IN IF x.audits_data = <<>> THEN NoData
       ELSE IF exact_id.hit THEN exact_id.result
       ELSE StagesAfterExactId(x, text_clean, order)

(***************************************************************************)
(* AuditEntityRecognizer (entity_extractor.py)                             *)
(***************************************************************************)
\* database.audit_aliases, its first entry: the aliases of one audit name
audit_aliases ==
    <<[key |-> <<"C","h","e","c","k"," ","D","e","v","i","c","e"," ","S","t","a","t","u","s"," ","a","n","d"," ","I","P"," ","A","d","d","r","e","s","s">>,
       value |-> <<<<"d","e","v","i","c","e"," ","s","t","a","t","u","s">>,
                   <<"I","P"," ","a","d","d","r","e","s","s"," ","c","h","e","c","k">>>>]>>

Category == [num |-> 80, den |-> 100]
Alias == [num |-> 80, den |-> 100]

\* the reverse alias mapping of load_data_references, from entry number i on
RECURSIVE AliasToAuditFrom(_, _)
AliasToAuditFrom(d, i) ==
    IF i > Len(audit_aliases) THEN d
    ELSE LET aliases == audit_aliases[i].value
             add[j \in 0..Len(aliases)] ==
                 IF j = 0 THEN d
                 ELSE DictSet(add[j - 1], Lower(aliases[j]), audit_aliases[i].key)
         IN AliasToAuditFrom(add[Len(aliases)], i + 1)

\* the two mappings of load_data_references, from audit number i on
RECURSIVE NameMapsFrom(_, _, _, _)
NameMapsFrom(audits, i, n2i, i2n) ==
    IF i > Len(audits) THEN [audit_name_to_id |-> n2i, audit_id_to_name |-> i2n]
    ELSE NameMapsFrom(audits, i + 1,
                      DictSet(n2i, audits[i].audit_name, audits[i].audit_id),
                      DictSet(i2n, audits[i].audit_id, audits[i].audit_name))

\* the categories of a list of audits as refresh_all_data collects them
CategoriesOf(audits) == {audits[i].audit_category : i \in 1..Len(audits)}

\* load_data_references on a new recognizer; categories is the list that
\* refresh_all_data made of the set of categories. Without cached data the
\* mappings are not created.
LoadDataReferences(cache, categories) ==
    IF ~GetCachedData(cache).loaded
    THEN [NoRecognizer EXCEPT !.built = TRUE]
    ELSE LET audits == GetCachedData(cache).audits
             maps == NameMapsFrom(audits, 1, <<>>, <<>>)
         IN [built |-> TRUE, loaded |-> TRUE,
             audit_names |-> [i \in 1..Len(audits) |-> audits[i].audit_name],
             audit_ids |-> [i \in 1..Len(audits) |-> audits[i].audit_id],
             audit_categories |-> categories,
             audit_name_to_id |-> maps.audit_name_to_id,
             audit_id_to_name |-> maps.audit_id_to_name,
             alias_to_audit |-> AliasToAuditFrom(<<>>, 1)]

\* dict.get(k, "")
DictGetOr(d, k) == IF DictHas(d, k) THEN DictGet(d, k) ELSE <<>>

Returned(entities) == [raised |-> FALSE, entities |-> entities]
Raised == [raised |-> TRUE, entities |-> {}]
NoEntities == [hit |-> FALSE, out |-> Returned({})]

\* the id stage of the recognizer: its two patterns, from pattern k on
RECURSIVE RecognizeIdFrom(_, _, _)
RecognizeIdFrom(r, text_clean, k) ==
    IF k > 2 THEN NoEntities
    ELSE LET matches == FindAll(audit_id_patterns[k], text_clean)
             known == {j \in 1..Len(matches) :
                          \E i \in 1..Len(r.audit_ids) : r.audit_ids[i] = matches[j]}
         IN IF known = {} THEN RecognizeIdFrom(r, text_clean, k + 1)
            ELSE LET match == matches[CHOOSE j \in known : \A h \in known : j <= h]
                 IN [hit |-> TRUE,
                     out |-> Returned({Entity("audit_id", match, Exact),
                                       Entity("audit_name",
                                              DictGetOr(r.audit_id_to_name, match), Exact)})]

\* the exact name stage of the recognizer
RecognizeName(r, text_clean) ==
    LET hits == {i \in 1..Len(r.audit_names) : Contains(text_clean, Lower(r.audit_names[i]))}
    IN IF hits = {} THEN NoEntities
       ELSE LET audit_name == r.audit_names[CHOOSE i \in hits : \A h \in hits : i <= h]
            IN [hit |-> TRUE,
                out |-> Returned({Entity("audit_name", audit_name, Exact),
                                  Entity("audit_id",
                                         DictGetOr(r.audit_name_to_id, audit_name), Exact)})]

\* the alias stage of the recognizer
RecognizeAlias(r, text_clean) ==
    LET d == r.alias_to_audit
        hits == {i \in 1..Len(d) : Contains(text_clean, d[i].key)}
    IN IF hits = {} THEN NoEntities
       ELSE LET audit_name == d[CHOOSE i \in hits : \A h \in hits : i <= h].value
            IN [hit |-> TRUE,
                out |-> Returned({Entity("audit_name", audit_name, Alias),
                                  Entity("audit_id",
                                         DictGetOr(r.audit_name_to_id, audit_name), Alias)})]

\* abs(len(word) - len(category)) <= 2
LengthsClose(word, category) ==
    Len(word) - Len(category) <= 2 /\ Len(category) - Len(word) <= 2

\* the category stage of the recognizer, from category number i on: the
\* test "category in text_clean" raises for a category that is None
RECURSIVE RecognizeCategoryFrom(_, _, _)
RecognizeCategoryFrom(r, text_clean, i) ==
    IF i > Len(r.audit_categories) THEN Returned({})
    ELSE LET category == r.audit_categories[i]
             text_words == Split(text_clean)
         IN IF category = None THEN Raised
            ELSE IF Contains(text_clean, category)
            THEN Returned({Entity("audit_category", category, Category)})
            ELSE IF \E t \in 1..Len(text_words) :
                       /\ AtLeastFuzzyThreshold(Similarity(text_words[t], category))
                       /\ LengthsClose(text_words[t], category)
            THEN Returned({Entity("audit_category", category, Fuzzy)})
            ELSE RecognizeCategoryFrom(r, text_clean, i + 1)

\* an extraction that goes on to the categories after an audit was found
RecognizeWithoutReturn(r, text_clean) ==
    LET by_id == RecognizeIdFrom(r, text_clean, 1)
        by_category == RecognizeCategoryFrom(r, text_clean, 1)
    IN IF by_id.hit /\ ~by_category.raised
       THEN Returned(by_id.out.entities \cup by_category.entities)
       ELSE by_category

\* AuditEntityRecognizer.extract_audit_entities after preprocess_text; the
\* alias stage raises when load_data_references found no cached data
RecognizeAuditEntities(r, text_clean) ==
    LET by_id == RecognizeIdFrom(r, text_clean, 1)
        by_name == RecognizeName(r, text_clean)
        by_alias == RecognizeAlias(r, text_clean)
    IN IF by_id.hit THEN by_id.out
       ELSE IF by_name.hit THEN by_name.out
       ELSE IF ~r.loaded THEN Raised
       ELSE IF by_alias.hit THEN by_alias.out
       ELSE RecognizeCategoryFrom(r, text_clean, 1)

(***************************************************************************)
(* ExecutionEntityExtractor: construction and extract_audit_entities       *)
(***************************************************************************)
\* the extractor of the current state
Self == Extractor(audits_data, audit_name_to_id, audit_id_to_name,
                  audit_categories, category_to_audits)

\* ExecutionEntityExtractor.__init__ with its containers still empty
NewExtractor == Extractor(<<>>, <<>>, <<>>, {}, <<>>)

SetExtractor(x) ==
    /\ audits_data' = x.audits_data
    /\ audit_name_to_id' = x.audit_name_to_id
    /\ audit_id_to_name' = x.audit_id_to_name
    /\ audit_categories' = x.audit_categories
    /\ category_to_audits' = x.category_to_audits

\* database.py is imported: nothing is cached, no agent exists yet
ResolverInit ==
    /\ OrchestratorAtRest
    /\ TextAtRest
    /\ db_audits \in InitialTables
    /\ cached_data = [loaded |-> FALSE, audits |-> <<>>]
    /\ connected = FALSE
    /\ rpc = "boot"
    /\ refreshed = FALSE
    /\ audits_data = <<>>
    /\ audit_name_to_id = <<>>
    /\ audit_id_to_name = <<>>
    /\ audit_categories = {}
    /\ category_to_audits = <<>>
    /\ input_text = <<>>
    /\ set_order = <<>>
    /\ result = NoResult
    /\ recognizer = NoRecognizer
    /\ recognized = NotRecognized
    /\ SessionAtRest

\* main.py, test_database_connection: with a connection the data is loaded
\* into the cache, without one the start-up is given up
TestDatabaseConnection(reachable) ==
    /\ rpc = "boot"
    /\ ~cached_data.loaded
    /\ connected' = reachable
    /\ IF reachable
       THEN /\ cached_data' = RefreshAllData(db_audits, TRUE)
            /\ rpc' = "boot"
       ELSE /\ cached_data' = cached_data
            /\ rpc' = "stopped"
    /\ UNCHANGED <<db_audits, refreshed, audits_data, audit_name_to_id,
                   audit_id_to_name, audit_categories, category_to_audits,
                   input_text, set_order, result>>
    /\ UNCHANGED <<recognizer, recognized>>
    /\ UNCHANGED <<sessionVars, serviceVars>>
    /\ UNCHANGED routerVars

\* AuditExecutionAgent.__init__ builds its entity_extractor, whose __init__
\* ends with load_fresh_audit_data
NewAuditExecutionAgent(reachable) ==
    /\ rpc = "boot"
    /\ LET fresh == RefreshAllData(db_audits, reachable)
           x == LoadFreshAuditData(NewExtractor, fresh, fresh)
       IN /\ cached_data' = fresh
          /\ SetExtractor(x)
    /\ connected' = reachable
    /\ rpc' = "idle"
    /\ UNCHANGED <<db_audits, refreshed, input_text, set_order, result>>
    /\ UNCHANGED <<recognizer, recognized>>
    /\ UNCHANGED <<sessionVars, serviceVars>>
    /\ UNCHANGED routerVars

\* the engineering workflow adds an audit to the table
InsertAudit ==
    /\ rpc # "stopped"
    /\ Len(db_audits) < MaxAudits
    /\ Len(db_audits) < Len(AuditPool)
    /\ AuditNull \notin {db_audits[i] : i \in 1..Len(db_audits)}
    /\ db_audits' = InsertOrdered(db_audits, AuditPool[Len(db_audits) + 1])
    /\ UNCHANGED <<cached_data, connected, rpc, refreshed, audits_data,
                   audit_name_to_id, audit_id_to_name,
                   audit_categories, category_to_audits, input_text, set_order, result>>
    /\ UNCHANGED <<recognizer, recognized>>
    /\ UNCHANGED <<sessionVars, serviceVars>>
    /\ UNCHANGED routerVars

\* a row without category is written to the table
InsertAuditWithoutCategory ==
    /\ rpc # "stopped"
    /\ Len(db_audits) < MaxAudits
    /\ AuditNull \notin {db_audits[i] : i \in 1..Len(db_audits)}
    /\ db_audits' = InsertOrdered(db_audits, AuditNull)
    /\ UNCHANGED <<cached_data, connected, rpc, refreshed, audits_data,
                   audit_name_to_id, audit_id_to_name,
                   audit_categories, category_to_audits, input_text, set_order, result>>
    /\ UNCHANGED <<recognizer, recognized>>
    /\ UNCHANGED <<sessionVars, serviceVars>>
    /\ UNCHANGED routerVars

\* extract_audit_entities(t): the refresh, the normalisation and the cascade
ExtractAuditEntities(t, reachable) ==
    /\ rpc = "idle"
    /\ LET fresh_data == RefreshAllData(db_audits, reachable)
           refresh == RefreshDataIfNeeded(Self, fresh_data)
           x == refresh.self
           text_clean == PreprocessText(t)
       IN /\ cached_data' = fresh_data
          /\ refreshed' = refresh.returned
          /\ SetExtractor(x)
          /\ \E order \in Orders(x.audit_categories) :
                /\ set_order' = order
                /\ result' = Resolve(x, text_clean, order)
    /\ connected' = reachable
    /\ input_text' = t
    /\ rpc' = "extracted"
    /\ UNCHANGED db_audits
    /\ UNCHANGED <<recognizer, recognized>>
    /\ UNCHANGED <<sessionVars, serviceVars>>
    /\ UNCHANGED routerVars

\* AuditExecutionAgent.handle_task has used the result and returned
ExecutionTaskDone ==
    /\ rpc = "extracted"
    /\ rpc' = "idle"
    /\ input_text' = <<>>
    /\ set_order' = <<>>
    /\ result' = NoResult
    /\ UNCHANGED <<db_audits, cached_data, connected, refreshed, audits_data,
                   audit_name_to_id,
                   audit_id_to_name, audit_categories, category_to_audits>>
    /\ UNCHANGED <<recognizer, recognized>>
    /\ UNCHANGED <<sessionVars, serviceVars>>
    /\ UNCHANGED routerVars

ResolverNext ==
    \/ \E reachable \in BOOLEAN : TestDatabaseConnection(reachable)
    \/ \E reachable \in BOOLEAN : NewAuditExecutionAgent(reachable)
    \/ InsertAudit
    \/ InsertAuditWithoutCategory
    \/ \E t \in Texts, reachable \in BOOLEAN : ExtractAuditEntities(t, reachable)
    \/ ExecutionTaskDone

SpecResolver == ResolverInit /\ [][ResolverNext]_vars

(***************************************************************************)
(* The two extractors side by side                                         *)
(***************************************************************************)
\* texts handed to both extract_audit_entities: a number with a category, an
\* unknown number, an exact name, misspelt categories, an alias, a category
EntityTexts ==
    {<<>>,
     <<"S","h","o","w"," ","n","e","t","w","o","r","k"," ","a","u","d","i","t"," ","1","6">>,
     <<"r","u","n"," ","c","i","s","k","o"," ","a","u","d","i","t"," ","9","9">>,
     <<"C","i","s","c","o","-","A","u","d","i","t"," ","N","e","w","!">>,
     <<"n","e","t","w","r","k"," ","s","e","c","u","r","t","y">>,
     <<"D","e","v","i","c","e"," ","s","t","a","t","u","s",","," ","p","l","e","a","s","e">>,
     <<"s","h","o","w"," ","N","e","t","w","o","r","k"," ","a","u","d","i","t","s">>,
     <<"i","d"," ","1","9"," ","n","e","t","w","o","r","k">>}

\* AuditRetrievalAgent.__init__ builds its entity extractor, whose recognizer
\* takes its data references from the cache as it is
NewAuditRetrievalAgent ==
    /\ rpc \in {"boot", "idle"}
    /\ \E categories \in Orders(CategoriesOf(GetCachedData(cached_data).audits)) :
          recognizer' = LoadDataReferences(cached_data, categories)
    /\ UNCHANGED <<db_audits, cached_data, connected, rpc, refreshed, audits_data,
                   audit_name_to_id, audit_id_to_name, audit_categories,
                   category_to_audits, input_text, set_order, result, recognized>>
    /\ UNCHANGED <<sessionVars, serviceVars>>
    /\ UNCHANGED routerVars

\* AuditEntityRecognizer.extract_audit_entities(t)
RecognizeEntities(t) ==
    /\ rpc = "idle"
    /\ recognizer.built
    /\ recognized' = RecognizeAuditEntities(recognizer, PreprocessText(t))
    /\ input_text' = t
    /\ rpc' = "recognized"
    /\ UNCHANGED <<db_audits, cached_data, connected, refreshed, audits_data,
                   audit_name_to_id, audit_id_to_name, audit_categories,
                   category_to_audits, set_order, result, recognizer>>
    /\ UNCHANGED <<sessionVars, serviceVars>>
    /\ UNCHANGED routerVars

\* the retrieval agent has used the entities and returned
RetrievalTaskDone ==
    /\ rpc = "recognized"
    /\ rpc' = "idle"
    /\ input_text' = <<>>
    /\ recognized' = NotRecognized
    /\ UNCHANGED <<db_audits, cached_data, connected, refreshed, audits_data,
                   audit_name_to_id, audit_id_to_name, audit_categories,
                   category_to_audits, set_order, result, recognizer>>
    /\ UNCHANGED <<sessionVars, serviceVars>>
    /\ UNCHANGED routerVars

EntitiesNext ==
    \/ \E reachable \in BOOLEAN : TestDatabaseConnection(reachable)
    \/ \E reachable \in BOOLEAN : NewAuditExecutionAgent(reachable)
    \/ InsertAudit
    \/ InsertAuditWithoutCategory
    \/ \E t \in EntityTexts, reachable \in BOOLEAN : ExtractAuditEntities(t, reachable)
    \/ ExecutionTaskDone
    \/ NewAuditRetrievalAgent
    \/ \E t \in EntityTexts : RecognizeEntities(t)
    \/ RetrievalTaskDone

SpecEntities == ResolverInit /\ [][EntitiesNext]_vars

(***************************************************************************)
(* Device and time entities of the recognizer                              *)
(***************************************************************************)
Time == [num |-> 90, den |-> 100]
Device == [num |-> 85, den |-> 100]

\* time_patterns['relative'] in the order of the dict: the words of each
\* pattern and its value, pattern.replace(r'\b', '').replace(r'\s+', '_')
relative_patterns ==
    <<
     [phrase |-> <<<<"l","a","s","t">>, <<"w","e","e","k">>>>, last_n_days |-> FALSE,
      value |-> <<"l","a","s","t","_","w","e","e","k">>],
     [phrase |-> <<<<"t","h","i","s">>, <<"w","e","e","k">>>>, last_n_days |-> FALSE,
      value |-> <<"t","h","i","s","_","w","e","e","k">>],
     [phrase |-> <<<<"l","a","s","t">>, <<"m","o","n","t","h">>>>, last_n_days |-> FALSE,
      value |-> <<"l","a","s","t","_","m","o","n","t","h">>],
     [phrase |-> <<<<"t","h","i","s">>, <<"m","o","n","t","h">>>>, last_n_days |-> FALSE,
      value |-> <<"t","h","i","s","_","m","o","n","t","h">>],
     [phrase |-> <<<<"y","e","s","t","e","r","d","a","y">>>>, last_n_days |-> FALSE,
      value |-> <<"y","e","s","t","e","r","d","a","y">>],
     [phrase |-> <<<<"t","o","d","a","y">>>>, last_n_days |-> FALSE,
      value |-> <<"t","o","d","a","y">>],
     [phrase |-> <<>>, last_n_days |-> TRUE, value |-> <<>>],
     [phrase |-> <<<<"s","i","n","c","e">>, <<"l","a","s","t">>, <<"m","o","n","d","a","y">>>>, last_n_days |-> FALSE,
      value |-> <<"s","i","n","c","e","_","l","a","s","t","_","m","o","n","d","a","y">>],
     [phrase |-> <<<<"p","a","s","t">>, <<"w","e","e","k">>>>, last_n_days |-> FALSE,
      value |-> <<"p","a","s","t","_","w","e","e","k">>],
     [phrase |-> <<<<"r","e","c","e","n","t">>>>, last_n_days |-> FALSE,
      value |-> <<"r","e","c","e","n","t">>]
    >>

\* time_patterns['absolute'] in the order of the dict: the names each
\* pattern accepts for its month
absolute_patterns ==
    <<
     {<<"j","a","n","u","a","r","y">>, <<"j","a","n">>},
     {<<"f","e","b","r","u","a","r","y">>, <<"f","e","b">>},
     {<<"m","a","r","c","h">>, <<"m","a","r">>},
     {<<"a","p","r","i","l">>, <<"a","p","r">>},
     {<<"m","a","y">>},
     {<<"j","u","n","e">>, <<"j","u","n">>},
     {<<"j","u","l","y">>, <<"j","u","l">>},
     {<<"a","u","g","u","s","t">>, <<"a","u","g">>},
     {<<"s","e","p","t","e","m","b","e","r">>, <<"s","e","p">>},
     {<<"o","c","t","o","b","e","r">>, <<"o","c","t">>},
     {<<"n","o","v","e","m","b","e","r">>, <<"n","o","v">>},
     {<<"d","e","c","e","m","b","e","r">>, <<"d","e","c">>}
    >>

\* the words of text_clean from number i on are those of the phrase: the
\* patterns are words between \b joined by \s+, and text_clean holds word
\* characters and single spaces only
PhraseAt(words, i, phrase) ==
    /\ i + Len(phrase) - 1 <= Len(words)
    /\ \A k \in 1..Len(phrase) : words[i + k - 1] = phrase[k]

\* \blast\s+(\d+)\s+days?\b at word number i
LastNDaysAt(words, i) ==
    /\ i + 2 <= Len(words)
    /\ words[i] = <<"l","a","s","t">>
    /\ IsDigits(words[i + 1])
    /\ words[i + 2] \in {<<"d","a","y">>, <<"d","a","y","s">>}

\* \b(name|short)\s+(\d{4})\b at word number i
MonthYearAt(words, i, names) ==
    /\ i + 1 <= Len(words)
    /\ words[i] \in names
    /\ IsDigits(words[i + 1])
    /\ Len(words[i + 1]) = 4

\* re.search of relative pattern number p
SearchRelative(words, p) ==
    \E i \in 1..Len(words) :
       IF relative_patterns[p].last_n_days THEN LastNDaysAt(words, i)
       ELSE PhraseAt(words, i, relative_patterns[p].phrase)

\* the first loop of extract_time_entities: the first pattern found, then
\* break
RelativeTimeRange(words) ==
    LET found == {p \in 1..Len(relative_patterns) : SearchRelative(words, p)}
    IN IF found = {} THEN {}
       ELSE LET p == CHOOSE f \in found : \A g \in found : f <= g
            IN IF relative_patterns[p].last_n_days
               THEN LET i == CHOOSE j \in 1..Len(words) :
                                 /\ LastNDaysAt(words, j)
                                 /\ \A h \in 1..Len(words) : LastNDaysAt(words, h) => j <= h
                        days == IntOf(words[i + 1])
                    IN {Entity("time_range",
                               <<"l","a","s","t","_">> \o Str(days) \o <<"_","d","a","y","s">>,
                               Time)}
               ELSE {Entity("time_range", relative_patterns[p].value, Time)}

\* the second loop of extract_time_entities: the first month pattern found
AbsoluteTimeRange(words) ==
    LET found == {p \in 1..Len(absolute_patterns) :
                     \E i \in 1..Len(words) : MonthYearAt(words, i, absolute_patterns[p])}
    IN IF found = {} THEN {}
       ELSE LET p == CHOOSE f \in found : \A g \in found : f <= g
                i == CHOOSE j \in 1..Len(words) :
                        /\ MonthYearAt(words, j, absolute_patterns[p])
                        /\ \A h \in 1..Len(words) :
                              MonthYearAt(words, h, absolute_patterns[p]) => j <= h
            IN {Entity("time_range",
                       words[i] \o <<"_">> \o Str(IntOf(words[i + 1])), Time)}

\* extract_time_entities after preprocess_text: the absolute time range
\* replaces the relative one under the key time_range
ExtractTimeEntities(text_clean) ==
    LET words == Split(text_clean)
    IN IF AbsoluteTimeRange(words) # {} THEN AbsoluteTimeRange(words)
       ELSE RelativeTimeRange(words)

\* the first element of a list that occurs in the text, as a set
FirstIn(list, text_clean) ==
    LET found == {i \in 1..Len(list) : Contains(text_clean, list[i])}
    IN IF found = {} THEN {}
       ELSE {list[CHOOSE f \in found : \A g \in found : f <= g]}

\* extract_device_entities after preprocess_text
ExtractDeviceEntities(device_names, device_categories, text_clean) ==
    {Entity("device_name", n, Exact) : n \in FirstIn(device_names, text_clean)}
       \cup {Entity("device_category", c, Device) :
                c \in FirstIn(device_categories, text_clean)}

\* rows of the devices table: a name in lower case, a name with capitals
Device1 == [device_name |-> <<"s","w","1">>, device_category |-> <<"s","w","i","t","c","h">>]
Device2 == [device_name |-> <<"R","o","u","t","e","r"," ","A">>, device_category |-> <<"r","o","u","t","e","r">>]
DeviceTables == {<<>>, <<Device1>>, <<Device1, Device2>>, <<Device2, Device1>>}

\* texts with devices and times
ContextTexts ==
    {<<>>,
     <<"h","i","s","t","o","r","y"," ","o","f"," ","s","w","1"," ","l","a","s","t"," ","w","e","e","k">>,
     <<"S","w","i","t","c","h"," ","r","e","p","o","r","t","s"," ","s","i","n","c","e"," ","J","a","n","u","a","r","y"," ","2","0","2","4">>,
     <<"s","w","1"," ","s","w","i","t","c","h",","," ","l","a","s","t"," ","0","7"," ","d","a","y","s">>,
     <<"d","e","v","i","c","e"," ","s","t","a","t","u","s"," ","y","e","s","t","e","r","d","a","y">>,
     <<"R","o","u","t","e","r"," ","A"," ","t","o","d","a","y"," ","(","j","a","n"," ","2","0","2","5",")">>,
     <<"r","e","c","e","n","t"," ","r","o","u","t","e","r"," ","r","e","s","u","l","t","s">>}

\* recognize_entities(t), its calls of extract_device_entities and of
\* extract_time_entities; devices_data are the rows of the devices table in
\* the cached data the recognizer loaded
RecognizeDeviceAndTime(t, devices_data) ==
    /\ rpc = "idle"
    /\ recognizer.built
    /\ \E device_categories \in Orders({devices_data[i].device_category :
                                           i \in 1..Len(devices_data)}) :
          LET device_names == IF recognizer.loaded
                              THEN [i \in 1..Len(devices_data) |->
                                       devices_data[i].device_name]
                              ELSE <<>>
              categories == IF recognizer.loaded THEN device_categories ELSE <<>>
          IN recognized' =
                Returned(ExtractDeviceEntities(device_names, categories, PreprocessText(t))
                            \cup ExtractTimeEntities(PreprocessText(t)))
    /\ input_text' = t
    /\ rpc' = "context"
    /\ UNCHANGED <<db_audits, cached_data, connected, refreshed, audits_data,
                   audit_name_to_id, audit_id_to_name, audit_categories,
                   category_to_audits, set_order, result, recognizer>>
    /\ UNCHANGED <<sessionVars, serviceVars>>
    /\ UNCHANGED routerVars

\* the retrieval agent has used the device and time entities
ContextTaskDone ==
    /\ rpc = "context"
    /\ rpc' = "idle"
    /\ input_text' = <<>>
    /\ recognized' = NotRecognized
    /\ UNCHANGED <<db_audits, cached_data, connected, refreshed, audits_data,
                   audit_name_to_id, audit_id_to_name, audit_categories,
                   category_to_audits, set_order, result, recognizer>>
    /\ UNCHANGED <<sessionVars, serviceVars>>
    /\ UNCHANGED routerVars

ContextNext ==
    \/ \E reachable \in BOOLEAN : TestDatabaseConnection(reachable)
    \/ \E reachable \in BOOLEAN : NewAuditExecutionAgent(reachable)
    \/ InsertAudit
    \/ NewAuditRetrievalAgent
    \/ \E t \in ContextTexts : RecognizeEntities(t)
    \/ RetrievalTaskDone
    \/ \E t \in ContextTexts, devices_data \in DeviceTables :
          RecognizeDeviceAndTime(t, devices_data)
    \/ ContextTaskDone

SpecContext == ResolverInit /\ [][ContextNext]_vars

(***************************************************************************)
(* The category stage of the recognizer on categories that resemble        *)
(***************************************************************************)
AuditVlan == [audit_id |-> 21,
              audit_name |-> <<"T","r","u","n","k"," ","C","h","e","c","k">>,
              category |-> <<"v","l","a","n">>]
AuditWlan == [audit_id |-> 22,
              audit_name |-> <<"S","i","g","n","a","l"," ","C","h","e","c","k">>,
              category |-> <<"w","l","a","n">>]

\* tables whose categories differ in one letter, or in case only
CategoryTables ==
    {<<AuditVlan>>, <<AuditVlan, AuditWlan>>, <<Audit16, Audit18>>,
     <<Audit16, AuditVlan, AuditWlan>>}

\* texts that name a category
CategoryTexts ==
    {<<>>,
     <<"s","h","o","w"," ","v","l","a","n"," ","a","u","d","i","t","s">>,
     <<"s","h","o","w"," ","N","e","t","w","o","r","k"," ","a","u","d","i","t","s">>,
     <<"w","l","a","n"," ","a","u","d","i","t","s">>,
     <<"l","i","s","t"," ","a","l","l"," ","V","L","A","N"," ","c","h","e","c","k","s",","," ","p","l","e","a","s","e">>,
     <<"v","l","a","n"," ","a","n","d"," ","w","l","a","n">>}

CategoryInit ==
    /\ OrchestratorAtRest
    /\ TextAtRest
    /\ db_audits \in CategoryTables
    /\ cached_data = [loaded |-> FALSE, audits |-> <<>>]
    /\ connected = FALSE
    /\ rpc = "boot"
    /\ refreshed = FALSE
    /\ audits_data = <<>>
    /\ audit_name_to_id = <<>>
    /\ audit_id_to_name = <<>>
    /\ audit_categories = {}
    /\ category_to_audits = <<>>
    /\ input_text = <<>>
    /\ set_order = <<>>
    /\ result = NoResult
    /\ recognizer = NoRecognizer
    /\ recognized = NotRecognized
    /\ SessionAtRest

CategoryNext ==
    \/ \E reachable \in BOOLEAN : TestDatabaseConnection(reachable)
    \/ \E reachable \in BOOLEAN : NewAuditExecutionAgent(reachable)
    \/ NewAuditRetrievalAgent
    \/ \E t \in CategoryTexts : RecognizeEntities(t)
    \/ RetrievalTaskDone

SpecCategories == CategoryInit /\ [][CategoryNext]_vars

(***************************************************************************)
(* similarity and preprocess_text called on their own                      *)
(***************************************************************************)
\* words compared: misspellings, anagrams, capitals, the empty word
SimilarityWords ==
    {<<>>,
     <<"t","i","d","e">>,
     <<"d","i","e","t">>,
     <<"a","u","d","i","t">>,
     <<"A","u","d","i","t">>,
     <<"a","d","i","t">>,
     <<"s","t","a","t","u","s">>,
     <<"s","e","c","u","r","i","t","y">>,
     <<"c","i","s","k","o">>,
     <<"N","e","t","w","o","r","k">>,
     <<"n","e","t","w","r","k">>}

\* texts normalized: hyphen and exclamation mark, an underscore, runs of
\* spaces and a tab, capitals, a capital I with a dot
NormalizeTexts ==
    {<<"A","u","d","i","t","-","1","6","!">>,
     <<"a","u","d","i","t"," ","1","6">>,
     <<"r","u","n"," ","a","u","d","i","t","_","1","6">>,
     <<" "," ","S","h","o","w"," "," "," ","N","e","t","w","o","r","k",","," ","a","u","d","i","t","s"," ">>,
     <<CapitalIDot,"s","t"," ","1">>,
     <<>>,
     <<"S","H","O","W","\t","a","u","d","i","t","s">>}

\* string.punctuation, but for the backquote
Punctuation ==
    {"!", "\"", "#", "$", "%", "&", "'", "(", ")", "*", "+", ",", "-", ".", "/",
     ":", ";", "<", "=", ">", "?", "@", "[", "\\", "]", "^", "_", "{", "|",
     "}", "~"}

\* the text with a space in the place of each punctuation character
RECURSIVE PunctuationToSpace(_)
PunctuationToSpace(text) ==
    IF text = <<>> THEN <<>>
    ELSE <<IF Head(text) \in Punctuation THEN " " ELSE Head(text)>>
         \o PunctuationToSpace(Tail(text))

\* the calls that are made
TextCalls ==
    {[fn |-> "similarity", a |-> a, b |-> b, returned |-> FALSE, out |-> <<>>] :
        a \in SimilarityWords, b \in SimilarityWords}
    \cup {[fn |-> "preprocess_text", a |-> x, b |-> <<>>, returned |-> FALSE,
           out |-> <<>>] : x \in NormalizeTexts}

TextInit ==
    /\ OrchestratorAtRest
    /\ ExtractorAtRest
    /\ text_call \in TextCalls

TextFrame ==
    UNCHANGED <<routerVars, db_audits, cached_data, connected, rpc, refreshed,
                audits_data, audit_name_to_id, audit_id_to_name, audit_categories,
                category_to_audits, input_text, set_order, result, recognizer,
                recognized, sessionVars, execution, api,
                engineering, forwarding>>

\* similarity(a, b) returns
CallSimilarity ==
    /\ text_call.fn = "similarity"
    /\ ~text_call.returned
    /\ text_call' = [text_call EXCEPT !.returned = TRUE,
                                      !.out = Similarity(text_call.a, text_call.b)]
    /\ TextFrame

\* preprocess_text(a) returns
CallPreprocessText ==
    /\ text_call.fn = "preprocess_text"
    /\ ~text_call.returned
    /\ text_call' = [text_call EXCEPT !.returned = TRUE,
                                      !.out = PreprocessText(text_call.a)]
    /\ TextFrame

TextNext ==
    \/ CallSimilarity
    \/ CallPreprocessText

SpecText == TextInit /\ [][TextNext]_vars

(***************************************************************************)
(* One WebSocket session: api_server.py and the agents behind it           *)
(*                                                                         *)
(* runtime.publish_message returns once the message is queued; the runtime *)
(* runs the handler of each queued message as a task of its own.           *)
(***************************************************************************)
\* where the handling of a message stands: on which topic it waits, which
\* LLM call its orchestrator handler awaits, or that its response was sent
Stages == {"none", "user_topic", "orchestrator_topic", "llm_low_confidence",
           "llm_general", "handler_topic", "response_topic", "delivered",
           "no_response"}

SessionInit == OrchestratorAtRest /\ ExtractorAtRest /\ TextAtRest

MoveTo(n, to) == stage' = [stage EXCEPT ![n] = to]

\* where route_to_agent leaves a message: with a handler, with the reply of
\* the engineer path on its way to the user, or without any response
RoutedStage(intent) ==
    IF TargetTopic(intent) # "none" THEN "handler_topic"
    ELSE IF intent = "ENGINEER_AUDIT" THEN "response_topic"
    ELSE "no_response"

\* the rest of the state, which the steps of the session leave alone
AgentsUnchanged ==
    UNCHANGED <<routerVars, db_audits, cached_data, connected, rpc, refreshed,
                audits_data, audit_name_to_id, audit_id_to_name, audit_categories,
                category_to_audits, input_text, set_order, result, recognizer,
                recognized, serviceVars>>

\* the client writes its next message to the socket
ClientSends ==
    /\ sent < MaxRequests
    /\ sent' = sent + 1
    /\ UNCHANGED <<accepted, stage, delivered>>
    /\ AgentsUnchanged

\* handle_client_connection takes the next message off the socket and
\* handle_client_message publishes the UserTask to the user topic and returns
HandleClientMessage ==
    /\ accepted < sent
    /\ accepted' = accepted + 1
    /\ MoveTo(accepted + 1, "user_topic")
    /\ UNCHANGED <<sent, delivered>>
    /\ AgentsUnchanged

\* WebSocketUserAgent.handle_user_task forwards the task to the orchestrator
HandleUserTask(n) ==
    /\ stage[n] = "user_topic"
    /\ MoveTo(n, "orchestrator_topic")
    /\ UNCHANGED <<sent, accepted, delivered>>
    /\ AgentsUnchanged

\* OrchestratorAgent.handle_task up to its first await: it publishes the
\* task to a handler, or awaits the LLM on one of its two prompts
OrchestratorHandleTask(n, cls) ==
    /\ stage[n] = "orchestrator_topic"
    /\ MoveTo(n, IF cls.raises THEN "no_response"
                 ELSE CASE Decide(cls.label, cls.confidence) = "CONFIDENT_SPECIFIC"
                             -> RoutedStage(cls.label)
                        [] Decide(cls.label, cls.confidence) = "CONFIDENT_GENERAL"
                             -> "llm_general"
                        [] OTHER -> "llm_low_confidence")
    /\ UNCHANGED <<sent, accepted, delivered>>
    /\ AgentsUnchanged

\* the awaited LLM call of message n returns: the classification routes the
\* task or asks for the general reply, the general reply is the response
LLMReturns(n, out) ==
    /\ stage[n] \in {"llm_low_confidence", "llm_general"}
    /\ MoveTo(n, IF stage[n] = "llm_general" THEN "response_topic"
                 ELSE IF ExtractIntentFromLLMResponse(HandleWithLLM(out)) # "GENERAL"
                 THEN RoutedStage(ExtractIntentFromLLMResponse(HandleWithLLM(out)))
                 ELSE "llm_general")
    /\ UNCHANGED <<sent, accepted, delivered>>
    /\ AgentsUnchanged

\* the retrieval or execution agent publishes its AgentResponse
HandlerResponds(n) ==
    /\ stage[n] = "handler_topic"
    /\ MoveTo(n, "response_topic")
    /\ UNCHANGED <<sent, accepted, delivered>>
    /\ AgentsUnchanged

\* WebSocketResponseHandler.handle_agent_response sends the response
HandleAgentResponse(n) ==
    /\ stage[n] = "response_topic"
    /\ MoveTo(n, "delivered")
    /\ delivered' = Append(delivered, n)
    /\ UNCHANGED <<sent, accepted>>
    /\ AgentsUnchanged

SessionNext ==
    \/ ClientSends
    \/ HandleClientMessage
    \/ \E n \in 1..MaxRequests : HandleUserTask(n)
    \/ \E n \in 1..MaxRequests, cls \in ClassifierOutcomes : OrchestratorHandleTask(n, cls)
    \/ \E n \in 1..MaxRequests, out \in LLMOutcomes : LLMReturns(n, out)
    \/ \E n \in 1..MaxRequests : HandlerResponds(n)
    \/ \E n \in 1..MaxRequests : HandleAgentResponse(n)

SpecSession == SessionInit /\ [][SessionNext]_vars

(***************************************************************************)
(* AuditExecutionAgent.handle_task: execution of the audit that was found  *)
(*                                                                         *)
(* execute_audit_by_identifier and execute_audit_on_device are coroutines  *)
(* without a suspension point: the database calls and the audit function   *)
(* of the loaded module are called synchronously. asyncio.wait_for gives   *)
(* up only when the awaited coroutine is suspended, so the call of         *)
(* safe_execute_audit ends when the collaborator returns or raises.        *)
(***************************************************************************)
\* rows with small audit_ids, as a table has them that was filled from 1 on
Audit1 == [audit_id |-> 1,
           audit_name |-> <<"P","i","n","g"," ","S","w","e","e","p">>,
           category |-> <<"N","e","t","w","o","r","k">>]
Audit2 == [audit_id |-> 2,
           audit_name |-> <<"V","l","a","n"," ","C","h","e","c","k">>,
           category |-> <<"N","e","t","w","o","r","k">>]
Audit3 == [audit_id |-> 3,
           audit_name |-> <<"P","o","r","t"," ","S","c","a","n">>,
           category |-> <<"S","e","c","u","r","i","t","y">>]

\* the tables of the executions: ids 1..2, ids 2..3 after the audit 1 was
\* deleted, and one audit of the engineering workflow
ExecutionTables == {<<Audit1, Audit2>>, <<Audit2, Audit3>>, <<Audit16>>}

\* the requests handed to the execution agent
ExecutionTexts ==
    {<<"r","u","n"," ","a","u","d","i","t"," ","2">>,
     <<"e","x","e","c","u","t","e"," ","a","u","d","i","t"," ","1","6">>,
     <<"r","u","n"," ","t","h","e"," ","p","o","r","t"," ","s","c","a","n">>,
     <<"r","u","n"," ","n","e","t","w","o","r","k"," ","a","u","d","i","t","s">>}

\* timeout_seconds of safe_execute_audit
timeout_seconds == 30

\* the clock of the model advances by half the timeout
ClockStep == timeout_seconds \div 2

\* the longest an audit function is followed, in seconds
MaxElapsed == 45

\* no row
NoAudit == [audit_id |-> 0, audit_name |-> <<>>, category |-> <<>>]

\* find_audit_in_cache for an identifier of digits: the row at that place of
\* the table ORDER BY audit_id if there is one, else the row with that id
FindAuditInCache(rows, identifier, reachable) ==
    IF ~reachable THEN NoAudit
    ELSE LET index == IntOf(identifier) - 1
             by_id == {i \in 1..Len(rows) : Str(rows[i].audit_id) = identifier}
         IN IF index < 0 THEN NoAudit
            ELSE IF index < Len(rows) THEN rows[index + 1]
            ELSE IF by_id # {} THEN rows[CHOOSE i \in by_id : TRUE]
            ELSE NoAudit

\* find_audit_in_cache that looks for the audit_id only
FindAuditById(rows, identifier, reachable) ==
    IF ~reachable THEN NoAudit
    ELSE LET by_id == {i \in 1..Len(rows) : Str(rows[i].audit_id) = identifier}
         IN IF by_id # {} THEN rows[CHOOSE i \in by_id : TRUE] ELSE NoAudit

\* is_cache_empty
IsCacheEmpty(rows, reachable) == ~reachable \/ Len(rows) = 0

\* what safe_execute_audit returns: success and the kind of its text
SafeResult(ending) ==
    CASE ending = "returned" -> [success |-> TRUE, message |-> "result"]
      [] ending = "TimeoutError" -> [success |-> FALSE, message |-> "timed out"]
      [] OTHER -> [success |-> FALSE, message |-> "failed"]

\* status handle_task gives create_execution_report
ReportStatus(success) == IF success THEN "completed" ELSE "failed"

\* the value of the audit_id entity of the result at hand
ResultAuditId == (CHOOSE e \in result.entities : e.kind = "audit_id").value

ExecutionInit ==
    /\ OrchestratorAtRest
    /\ TextAtRest
    /\ db_audits \in ExecutionTables
    /\ cached_data = [loaded |-> FALSE, audits |-> <<>>]
    /\ connected = FALSE
    /\ rpc = "boot"
    /\ refreshed = FALSE
    /\ audits_data = <<>>
    /\ audit_name_to_id = <<>>
    /\ audit_id_to_name = <<>>
    /\ audit_categories = {}
    /\ category_to_audits = <<>>
    /\ input_text = <<>>
    /\ set_order = <<>>
    /\ result = NoResult
    /\ recognizer = NoRecognizer
    /\ recognized = NotRecognized
    /\ SessionAtRest

\* everything but the run of the execution
ExecutionFrame ==
    UNCHANGED <<routerVars, db_audits, cached_data, connected, refreshed,
                audits_data, audit_name_to_id, audit_id_to_name, audit_categories,
                category_to_audits, input_text, set_order, result, recognizer,
                recognized, sessionVars, api, text_call,
                engineering, forwarding>>

Ended(run, ending, found) ==
    [run EXCEPT !.pc = "returned", !.looked_up = found,
                !.success = SafeResult(ending).success,
                !.message = SafeResult(ending).message]

\* safe_execute_audit(audit_id, 30) up to the first audit function:
\* execute_audit_by_identifier returns a text when the table is empty or
\* cannot be read, when the audit is not found or has no compatible device
SafeExecuteAudit(reachable, devices) ==
    /\ rpc = "extracted"
    /\ result.type = "specific_audit"
    /\ execution.pc = "none"
    /\ LET run == [NoExecution EXCEPT !.audit_id = ResultAuditId]
           audit == FindAuditInCache(db_audits, ResultAuditId, reachable)
       IN execution' =
            IF IsCacheEmpty(db_audits, reachable) \/ audit = NoAudit
            THEN Ended(run, "returned", 0)
            ELSE IF ~devices THEN Ended(run, "returned", audit.audit_id)
            ELSE [run EXCEPT !.pc = "on_device", !.looked_up = audit.audit_id,
                             !.on_devices = TRUE]
    /\ UNCHANGED rpc
    /\ ExecutionFrame

\* the audit function of the loaded module is at work on a device
AuditFunctionRuns ==
    /\ execution.pc = "on_device"
    /\ execution.elapsed + ClockStep <= MaxElapsed
    /\ execution' = [execution EXCEPT !.elapsed = @ + ClockStep]
    /\ UNCHANGED rpc
    /\ ExecutionFrame

\* the last device is done: execute_audit_by_identifier returns its summary,
\* or store_report_in_db_sync raises from its rollback
ExecutionEnds(raised) ==
    /\ execution.pc = "on_device"
    /\ execution' = Ended(execution, IF raised THEN "Exception" ELSE "returned",
                          execution.looked_up)
    /\ UNCHANGED rpc
    /\ ExecutionFrame

\* create_execution_report with the status of the result
CreateExecutionReport(stored) ==
    /\ execution.pc = "returned"
    /\ execution' = [execution EXCEPT !.pc = "reported",
                                      !.status = ReportStatus(execution.success),
                                      !.report_id = stored]
    /\ UNCHANGED rpc
    /\ ExecutionFrame

\* _send_response publishes the AgentResponse
SendExecutionResponse ==
    /\ execution.pc = "reported"
    /\ execution' = [execution EXCEPT !.pc = "responded"]
    /\ UNCHANGED rpc
    /\ ExecutionFrame

\* handle_task returns: after the response of an execution, or after the
\* response to a result that names no audit
ExecutionHandled ==
    /\ rpc = "extracted"
    /\ result.type # "specific_audit" \/ execution.pc = "responded"
    /\ rpc' = "idle"
    /\ execution' = NoExecution
    /\ input_text' = <<>>
    /\ set_order' = <<>>
    /\ result' = NoResult
    /\ UNCHANGED <<routerVars, db_audits, cached_data, connected, refreshed,
                   audits_data, audit_name_to_id, audit_id_to_name,
                   audit_categories, category_to_audits, recognizer, recognized,
                   sessionVars, api, text_call,
                engineering, forwarding>>

ExecutionNext ==
    \/ \E reachable \in BOOLEAN : TestDatabaseConnection(reachable)
    \/ \E reachable \in BOOLEAN : NewAuditExecutionAgent(reachable)
    \/ \E t \in ExecutionTexts, reachable \in BOOLEAN : ExtractAuditEntities(t, reachable)
    \/ \E reachable \in BOOLEAN, devices \in BOOLEAN : SafeExecuteAudit(reachable, devices)
    \/ AuditFunctionRuns
    \/ \E raised \in BOOLEAN : ExecutionEnds(raised)
    \/ \E stored \in BOOLEAN : CreateExecutionReport(stored)
    \/ SendExecutionResponse
    \/ ExecutionHandled

SpecExecution == ExecutionInit /\ [][ExecutionNext]_vars

(***************************************************************************)
(* agent_api.py: the REST gateway                                          *)
(*                                                                         *)
(* Each request has a session id of its own (uuid4), which is its number   *)
(* here. The clock is in seconds.                                          *)
(***************************************************************************)
\* timeout of asyncio.wait_for(response_future, ...)
response_timeout == 60

\* the clock of the gateway advances by half the timeout
ApiClockStep == response_timeout \div 2

\* how far the clock of the gateway is followed
MaxClock == 120

\* the HTTP status of a request by the way process_*_request ended: the
\* HTTPException(408) is raised inside the try whose except Exception turns
\* every exception into HTTPException(500)
StatusCode(ending) ==
    CASE ending = "response" -> 200
      [] ending = "TimeoutError" -> 500
      [] OTHER -> 500

ApiFrame ==
    UNCHANGED <<routerVars, db_audits, cached_data, connected, rpc, refreshed,
                audits_data, audit_name_to_id, audit_id_to_name, audit_categories,
                category_to_audits, input_text, set_order, result, recognizer,
                recognized, sessionVars, execution, text_call,
                engineering, forwarding>>

ApiInit == OrchestratorAtRest /\ ExtractorAtRest /\ TextAtRest

Waiting(r) == api.requests[r].pc = "waiting"

\* the request has waited for the whole timeout
AtDeadline(r) == api.clock - api.requests[r].started >= response_timeout

\* process_*_request ends: the finally pops the session_id of the request,
\* whichever future is stored under it
Finish(r, ending) ==
    [api EXCEPT !.response_handlers[api.requests[r].session] = NoFuture,
                !.requests[r] = [@ EXCEPT !.pc = "done", !.ending = ending,
                                          !.status_code = StatusCode(ending)]]

\* process_user_request / process_engineer_request up to the wait: the
\* future is stored, the task is published; a publish that raises ends the
\* request
ProcessRequest(r, endpoint, session_id, publish_ok) ==
    /\ api.requests[r].pc = "none"
    /\ \A q \in 1..(r - 1) : api.requests[q].pc # "none"
    /\ LET stored == [api EXCEPT !.response_handlers[session_id] = r,
                                 !.requests[r] = [NoRequest EXCEPT
                                                    !.pc = "waiting",
                                                    !.endpoint = endpoint,
                                                    !.session = session_id,
                                                    !.started = api.clock]]
       IN api' = IF publish_ok THEN stored
                 ELSE [stored EXCEPT !.response_handlers[session_id] = NoFuture,
                                     !.requests[r] = [@ EXCEPT
                                          !.pc = "done", !.ending = "Exception",
                                          !.status_code = StatusCode("Exception")]]
    /\ ApiFrame

\* the task of the request was published and its AgentResponse is still to come
AwaitsReply(q) ==
    /\ api.requests[q].pc # "none"
    /\ api.requests[q].ending # "Exception"
    /\ ~api.requests[q].replied

\* APIResponseHandler.handle_agent_response for the AgentResponse to the
\* message of request q: it sets the future stored under the session_id of
\* the topic, if there is one and it is not done
ApiHandleAgentResponse(q) ==
    /\ AwaitsReply(q)
    /\ LET session_id == api.requests[q].session
           future == api.response_handlers[session_id]
           handled == [api EXCEPT !.requests[q].replied = TRUE]
       IN api' = IF future # NoFuture /\ ~api.requests[future].answered
                 THEN [handled EXCEPT !.requests[future].answered = TRUE,
                                      !.requests[future].resolved_by = q]
                 ELSE handled
    /\ ApiFrame

\* wait_for returns the response and the request returns its ChatResponse
RequestAnswered(r) ==
    /\ Waiting(r)
    /\ api.requests[r].answered
    /\ api' = Finish(r, "response")
    /\ ApiFrame

\* wait_for gives up after 60 seconds without a response
RequestTimesOut(r) ==
    /\ Waiting(r)
    /\ ~api.requests[r].answered
    /\ AtDeadline(r)
    /\ api' = Finish(r, "TimeoutError")
    /\ ApiFrame

\* time passes while no waiting request is at its deadline
ApiClockTicks ==
    /\ api.clock + ApiClockStep <= MaxClock
    /\ \E r \in 1..MaxApiRequests : Waiting(r)
    /\ \A r \in 1..MaxApiRequests : Waiting(r) => ~AtDeadline(r)
    /\ api' = [api EXCEPT !.clock = @ + ApiClockStep]
    /\ ApiFrame

ApiNext ==
    \/ \E r \in 1..MaxApiRequests, endpoint \in {"user-agent", "engineer-agent"},
          session_id \in ApiSessions, publish_ok \in BOOLEAN :
             ProcessRequest(r, endpoint, session_id, publish_ok)
    \/ \E r \in 1..MaxApiRequests : ApiHandleAgentResponse(r)
    \/ \E r \in 1..MaxApiRequests : RequestAnswered(r)
    \/ \E r \in 1..MaxApiRequests : RequestTimesOut(r)
    \/ ApiClockTicks

SpecApi == ApiInit /\ [][ApiNext]_vars

(***************************************************************************)
(* EngineerAgent.py and CodeGenerationAgent.py: one engineer session      *)
(***************************************************************************)
\* any(k in s for k in ks); the text is computed once
AnyIn(ks, s) == \E text \in {s} : \E k \in ks : Contains(text, k)

\* str.strip()
RECURSIVE LStrip(_)
LStrip(s) == IF s # <<>> /\ IsSpace(Head(s)) THEN LStrip(Tail(s)) ELSE s

RECURSIVE RStrip(_)
RStrip(s) ==
    IF s # <<>> /\ IsSpace(s[Len(s)]) THEN RStrip(SubSeq(s, 1, Len(s) - 1)) ELSE s

Strip(s) == RStrip(LStrip(s))

\* conversational_keywords of _is_conversational_request
ConversationalKeywords ==
    {<<"s","h","o","w"," ","p","e","n","d","i","n","g">>,
     <<"p","e","n","d","i","n","g"," ","r","e","q","u","e","s","t","s">>,
     <<"w","h","a","t"," ","r","e","q","u","e","s","t","s">>,
     <<"s","t","a","t","u","s">>,
     <<"w","h","a","t","'","s"," ","h","a","p","p","e","n","i","n","g">>,
     <<"c","u","r","r","e","n","t"," ","s","t","a","t","e">>,
     <<"h","e","l","p">>,
     <<"w","h","a","t"," ","c","a","n"," ","y","o","u"," ","d","o">>,
     <<"c","o","m","m","a","n","d","s">>,
     <<"l","i","s","t">>,
     <<"d","i","s","p","l","a","y">>,
     <<"v","i","e","w">>,
     <<"w","o","r","k"," ","o","n">>,
     <<"s","t","a","r","t"," ","t","a","s","k">>,
     <<"s","e","l","e","c","t"," ","t","a","s","k">>,
     <<"a","p","p","r","o","v","e">>,
     <<"r","e","j","e","c","t">>,
     <<"i","m","p","r","o","v","e">>,
     <<"r","e","f","i","n","e">>,
     <<"e","n","h","a","n","c","e">>,
     <<"m","o","d","i","f","y">>,
     <<"a","c","c","e","p","t">>,
     <<"d","e","c","l","i","n","e">>}

CodeWords ==
    {<<"c","o","d","e">>,
     <<"g","e","n","e","r","a","t","e">>,
     <<"c","r","e","a","t","e">>,
     <<"a","u","d","i","t">>,
     <<"m","o","p">>}

\* _is_conversational_request
IsConversationalRequest(content) ==
    \/ AnyIn(ConversationalKeywords, Lower(content))
    \/ Len(Split(content)) <= 3 /\ ~AnyIn(CodeWords, Lower(content))

\* the phrase lists of _handle_conversational_input, in the order of its branches
PendingPhrases ==
    {<<"s","h","o","w"," ","p","e","n","d","i","n","g">>,
     <<"p","e","n","d","i","n","g"," ","r","e","q","u","e","s","t","s">>,
     <<"w","h","a","t"," ","r","e","q","u","e","s","t","s">>,
     <<"w","h","a","t"," ","d","o"," ","w","e"," ","h","a","v","e">>,
     <<"a","n","y"," ","r","e","q","u","e","s","t","s">>,
     <<"t","a","s","k","s"," ","w","a","i","t","i","n","g">>,
     <<"w","h","a","t"," ","n","e","e","d","s"," ","d","o","i","n","g">>}

SelectionPhrases ==
    {<<"w","o","r","k"," ","o","n">>,
     <<"s","t","a","r","t"," ","t","a","s","k">>,
     <<"s","e","l","e","c","t"," ","t","a","s","k">>,
     <<"l","e","t","'","s"," ","w","o","r","k"," ","o","n">>,
     <<"t","a","c","k","l","e">>}

ApprovalPhrases ==
    {<<"a","p","p","r","o","v","e">>,
     <<"l","o","o","k","s"," ","g","o","o","d">>,
     <<"s","h","i","p"," ","i","t">>,
     <<"d","e","p","l","o","y">>,
     <<"f","i","n","a","l","i","z","e">>,
     <<"r","e","a","d","y"," ","t","o"," ","g","o">>,
     <<"g","o","o","d"," ","t","o"," ","g","o">>,
     <<"a","c","c","e","p","t"," ","t","h","i","s">>}

RejectionPhrases ==
    {<<"r","e","j","e","c","t">>,
     <<"t","r","y"," ","a","g","a","i","n">>,
     <<"s","t","a","r","t"," ","o","v","e","r">>,
     <<"n","o","t"," ","g","o","o","d">>,
     <<"n","e","e","d","s"," ","w","o","r","k">>,
     <<"c","a","n","c","e","l"," ","t","h","i","s">>,
     <<"d","i","s","c","a","r","d">>}

ImprovementPhrases ==
    {<<"i","m","p","r","o","v","e">>,
     <<"r","e","f","i","n","e">>,
     <<"e","n","h","a","n","c","e">>,
     <<"a","d","d"," ","c","o","m","m","e","n","t","s">>,
     <<"r","e","m","o","v","e"," ","c","o","m","m","e","n","t","s">>,
     <<"b","e","t","t","e","r"," ","e","r","r","o","r"," ","h","a","n","d","l","i","n","g">>,
     <<"o","p","t","i","m","i","z","e">>,
     <<"c","l","e","a","n"," ","u","p">>}

\* the branch _handle_conversational_input takes; its if/elif chain has no else
ConversationalBranch(content) ==
    LET m == Lower(Strip(content))
    IN IF AnyIn(PendingPhrases, m) THEN "show_pending_requests"
       ELSE IF AnyIn(SelectionPhrases, m) THEN "handle_task_selection"
       ELSE IF AnyIn(ApprovalPhrases, m) THEN "handle_code_approval"
       ELSE IF AnyIn(RejectionPhrases, m) THEN "handle_code_rejection"
       ELSE IF AnyIn(ImprovementPhrases, m) THEN "handle_code_improvement"
       ELSE "none"

\* the phrases that ask for code from the description
GenerationPhrases ==
    {<<"g","e","n","e","r","a","t","e"," ","c","o","d","e">>,
     <<"c","r","e","a","t","e"," ","c","o","d","e">>,
     <<"m","a","k","e"," ","c","o","d","e">>}

FilePhrases ==
    {<<"u","s","i","n","g"," ","t","h","i","s"," ","f","i","l","e">>,
     <<"u","s","e"," ","t","h","i","s"," ","f","i","l","e">>,
     <<"f","r","o","m"," ","t","h","i","s"," ","f","i","l","e">>,
     <<"w","i","t","h"," ","t","h","i","s"," ","f","i","l","e">>}

ApproveWord == <<"a","p","p","r","o","v","e">>

\* the word approve, in any case, stands at position i
ApproveAt(s, i) ==
    /\ i + Len(ApproveWord) - 1 <= Len(s)
    /\ Lower(SubSeq(s, i, i + Len(ApproveWord) - 1)) = ApproveWord

\* \s+ matches s[a..b]
Blank(s, a, b) == a <= b /\ \A k \in a..b : IsSpace(s[k])

\* [^"]+ matches s[a..b]
Unquoted(s, a, b) == a <= b /\ \A k \in a..b : s[k] # "\""

\* approve\s+"([^"]+)"\s+"([^"]+)" matches at position m[1] with its four
\* quotes at m[2], m[3], m[4] and m[5]
QuotedAt(s, m) ==
    /\ ApproveAt(s, m[1])
    /\ Blank(s, m[1] + Len(ApproveWord), m[2] - 1)
    /\ Unquoted(s, m[2] + 1, m[3] - 1)
    /\ Blank(s, m[3] + 1, m[4] - 1)
    /\ Unquoted(s, m[4] + 1, m[5] - 1)

\* the matches of that pattern in s
QuotedMatches(s) ==
    LET quotes == {k \in 1..Len(s) : s[k] = "\""}
    IN {m \in (1..Len(s)) \X quotes \X quotes \X quotes \X quotes : QuotedAt(s, m)}

\* approve\s+(\w+(?:\s+\w+)*)\s+(\w+)$ matched at position i
WordsAt(s, i) ==
    LET end == IF s # <<>> /\ s[Len(s)] = "\n" THEN Len(s) - 1 ELSE Len(s)
        rest == SubSeq(s, i + Len(ApproveWord), end)
    IN /\ ApproveAt(s, i)
       /\ rest # <<>>
       /\ IsSpace(rest[1])
       /\ IsWordChar(rest[Len(rest)])
       /\ \A k \in 1..Len(rest) : IsWordChar(rest[k]) \/ IsSpace(rest[k])
       /\ Len(Split(rest)) >= 2

NoApproval == [audit_name |-> None, category |-> None]

\* _parse_approval_command; re.search takes the leftmost match
ParseApprovalCommand(content) ==
    LET quoted == QuotedMatches(content)
        plain == {i \in 1..Len(content) : WordsAt(content, i)}
        words == Split(content)
    IN IF quoted # {}
       THEN LET m == CHOOSE q \in quoted : \A k \in quoted : q[1] <= k[1]
            IN [audit_name |-> Strip(SubSeq(content, m[2] + 1, m[3] - 1)),
                category |-> Strip(SubSeq(content, m[4] + 1, m[5] - 1))]
       ELSE IF plain # {} /\ Len(words) >= 3
       THEN [audit_name |-> Join(SubSeq(words, 2, Len(words) - 1)),
             category |-> words[Len(words)]]
       ELSE NoApproval

\* "if not audit_name or not category"
Falsy(s) == s = None \/ s = <<>>
\* the session of the engineer and the virtual MOP file of its direct requests
EngineerSessionId == <<"e","5","f","6","a","7","b","8">>
DirectTaskFile == <<"d","i","r","e","c","t","_","t","a","s","k","_">> \o EngineerSessionId \o <<".","t","x","t">>

\* messages of the engineer, none of them with an uploaded file
EngineerTexts ==
    {<<"h","e","l","p">>,
     <<"s","t","a","t","u","s">>,
     <<"l","i","s","t">>,
     <<"s","h","o","w"," ","p","e","n","d","i","n","g"," ","r","e","q","u","e","s","t","s">>,
     <<"w","o","r","k"," ","o","n"," ","1">>,
     <<"g","e","n","e","r","a","t","e"," ","c","o","d","e"," ","f","o","r"," ","b","g","p"," ","c","h","e","c","k">>,
     <<"a","p","p","r","o","v","e"," ","\"","B","g","p"," ","C","h","e","c","k","\""," ","\"","N","e","t","w","o","r","k","\"">>,
     <<"a","p","p","r","o","v","e">>,
     <<"r","e","j","e","c","t">>,
     <<"i","m","p","r","o","v","e"," ","b","y"," ","a","d","d","i","n","g"," ","l","o","g","g","i","n","g">>}

\* the engineer_tasks table after a customer's request for a new audit was
\* stored by route_to_agent
StoredRequests ==
    InsertEngineerTask(<<>>, "a1b2c3d4", "create an audit for vlans",
                       "create_new_audit", "inserted").rows

MaxEngineerInputs == 3

\* what the handlers read off the text of a message, computed once for each
\* message of the model
TextRead ==
    [content \in EngineerTexts |->
        [conversational |-> IsConversationalRequest(content),
         branch |-> ConversationalBranch(content),
         approval |-> ParseApprovalCommand(content),
         generation |-> AnyIn(GenerationPhrases, Lower(content)),
         file |-> AnyIn(FilePhrases, Lower(content)),
         digits |-> SelectSeq(Split(content), IsDigits)]]

\* a message on CODE_GENERATION_AGENT_TOPIC
CodeGenerationRequest(mop_filename) ==
    [type |-> "CodeGenerationRequest", mop_filename |-> mop_filename,
     action |-> "initial", audit_name |-> None, category |-> None]

CodeFeedback(mop_filename, action, audit_name, category) ==
    [type |-> "CodeFeedback", mop_filename |-> mop_filename,
     action |-> action, audit_name |-> audit_name, category |-> category]

\* what a sub-handler of handle_engineer_task leaves behind: the agents, the
\* engineer_tasks table and the number of AgentResponses it has published
Responded(e, rows, k) == [e |-> e, rows |-> rows, responses |-> k]

\* _load_pending_requests_from_db; an unreachable database gives no task
LoadPendingRequests(e, rows, db_ok) ==
    [e EXCEPT !.user_requests =
        @ \cup (IF db_ok
                THEN {rows[r].task_id :
                         r \in {q \in DOMAIN rows : rows[q].status = "pending"}}
                ELSE {})]

\* _show_pending_requests: one response, whether or not requests are pending
ShowPendingRequests(e, rows, db_ok) ==
    Responded(LoadPendingRequests(e, rows, db_ok), rows, 1)

\* update_task_status(task_id, 'in_progress')
UpdateTaskStatus(rows, task_id, db_ok) ==
    IF db_ok
    THEN [r \in DOMAIN rows |->
            IF rows[r].task_id = task_id
            THEN [rows[r] EXCEPT !.status = "in_progress"] ELSE rows[r]]
    ELSE rows

\* _handle_task_selection
HandleTaskSelection(e, rows, content, db_ok) ==
    LET ids == TextRead[content].digits
        loaded == LoadPendingRequests(e, rows, db_ok)
        found == {id \in loaded.user_requests : Str(id) = ids[1]}
    IN IF ids = <<>> THEN Responded(e, rows, 1)
       ELSE IF found = {}
       THEN Responded(ShowPendingRequests(loaded, rows, db_ok).e, rows, 2)
       ELSE LET id == CHOOSE id \in found : TRUE
            IN Responded([loaded EXCEPT !.current_task =
                                           [stored |-> TRUE, task_id |-> id]],
                         UpdateTaskStatus(rows, id, db_ok), 1)

\* _handle_code_approval
HandleCodeApproval(e, rows, content) ==
    LET parsed == TextRead[content].approval
    IN IF ~e.code_sessions.stored THEN Responded(e, rows, 1)
       ELSE IF Falsy(parsed.audit_name) \/ Falsy(parsed.category)
       THEN Responded(e, rows, 1)
       ELSE Responded([e EXCEPT !.to_codegen =
                          Append(@, CodeFeedback(e.code_sessions.mop_filename,
                                                 "approve", parsed.audit_name,
                                                 parsed.category))],
                      rows, 1)

\* _handle_code_rejection
HandleCodeRejection(e, rows) ==
    IF ~e.code_sessions.stored THEN Responded(e, rows, 1)
    ELSE Responded([e EXCEPT !.to_codegen =
                       Append(@, CodeFeedback(e.code_sessions.mop_filename,
                                              "reject", None, None))],
                   rows, 1)

\* _handle_code_improvement; _extract_improvement_feedback never returns an
\* empty text, so the request for specific feedback is never sent
HandleCodeImprovement(e, rows) ==
    IF ~e.code_sessions.stored THEN Responded(e, rows, 1)
    ELSE Responded([e EXCEPT !.to_codegen =
                       Append(@, CodeFeedback(e.code_sessions.mop_filename,
                                              "refine", None, None))],
                   rows, 1)

\* _handle_conversational_input
HandleConversationalInput(e, rows, content, db_ok) ==
    LET branch == TextRead[content].branch
    IN IF branch = "show_pending_requests" THEN ShowPendingRequests(e, rows, db_ok)
       ELSE IF branch = "handle_task_selection"
       THEN HandleTaskSelection(e, rows, content, db_ok)
       ELSE IF branch = "handle_code_approval" THEN HandleCodeApproval(e, rows, content)
       ELSE IF branch = "handle_code_rejection" THEN HandleCodeRejection(e, rows)
       ELSE IF branch = "handle_code_improvement" THEN HandleCodeImprovement(e, rows)
       ELSE Responded(e, rows, 0)

\* _handle_code_generation_request; no file was uploaded in the session
HandleCodeGenerationRequest(e, rows, content) ==
    IF TextRead[content].file THEN Responded(e, rows, 1)
    ELSE IF TextRead[content].generation
    THEN Responded([e EXCEPT !.to_codegen =
                       Append(@, CodeGenerationRequest(DirectTaskFile))],
                   rows, 1)
    ELSE Responded(e, rows, 1)

\* the body of handle_engineer_task
EngineerTaskHandled(e, rows, content, db_ok) ==
    IF TextRead[content].conversational
    THEN HandleConversationalInput(e, rows, content, db_ok)
    ELSE LET stored == [e EXCEPT !.current_task =
                           [stored |-> TRUE, task_id |-> e.task.task_id]]
         IN IF TextRead[content].generation
            THEN HandleCodeGenerationRequest(stored, rows, content)
            ELSE Responded(stored, rows, 1)

\* everything but the two agents, the engineer_tasks table and the audits table
EngineeringFrame ==
    UNCHANGED <<pc, message, predicted, scenario_log, llm_failed, llm_response,
                routed_intent, insert_result, to_user, to_handlers,
                user_session_id, user_message, classifier, cached_data,
                connected, rpc, refreshed, audits_data, audit_name_to_id,
                audit_id_to_name, audit_categories, category_to_audits,
                input_text, set_order, result, recognizer, recognized,
                sessionVars, execution, api, text_call, forwarding>>

EngineeringInit ==
    /\ OrchestratorIdle
    /\ engineer_tasks \in {<<>>, StoredRequests}
    /\ ExtractorAtRest
    /\ TextAtRest

\* the client of the session sends a message and api_server publishes it as
\* an EngineerTask on the engineer topic of the session
EngineerTaskReceived(content) ==
    /\ engineering.task.pc # "received"
    /\ engineering.task.n < MaxEngineerInputs
    /\ engineering' = [engineering EXCEPT !.task =
                          [n |-> @.n + 1, content |-> content, task_id |-> 0,
                           pc |-> "received", responses |-> 0]]
    /\ UNCHANGED <<engineer_tasks, db_audits>>
    /\ EngineeringFrame

\* WebSocketEngineerAgent.handle_engineer_task
HandleEngineerTask(db_ok) ==
    /\ engineering.task.pc = "received"
    /\ LET out == EngineerTaskHandled(engineering, engineer_tasks,
                                      engineering.task.content, db_ok)
       IN /\ engineering' = [out.e EXCEPT !.task.pc = "handled",
                                          !.task.responses = out.responses]
          /\ engineer_tasks' = out.rows
    /\ UNCHANGED db_audits
    /\ EngineeringFrame

\* [^\w\s] does not match c
WordOrSpace(c) == IsWordChar(c) \/ IsSpace(c)

NotBlank(c) == c # " "

PyExtension == <<".","p","y">>

\* str.endswith
EndsWith(s, suffix) ==
    Len(s) >= Len(suffix) /\ SubSeq(s, Len(s) - Len(suffix) + 1, Len(s)) = suffix

\* create_audit_filename
CreateAuditFilename(audit_name) ==
    LET clean_name == SelectSeq(SelectSeq(audit_name, WordOrSpace), NotBlank)
    IN IF EndsWith(clean_name, PyExtension) THEN clean_name
       ELSE clean_name \o PyExtension

AuditsFolder == <<"a","u","d","i","t","s","/">>

\* save_audit_to_file: open(file_path, 'w') replaces a script of that name;
\* save_ok is whether the folder could be made and the file written
SaveAuditToFile(files, code, audit_name, save_ok) ==
    LET filename == CreateAuditFilename(audit_name)
    IN IF save_ok
       THEN [success |-> TRUE, relative_path |-> AuditsFolder \o filename,
             files |-> {f \in files : f.name # filename}
                          \cup {[name |-> filename, code |-> code]}]
       ELSE [success |-> FALSE, relative_path |-> None, files |-> files]

\* the audit_id the serial column of the audits table gives next
NextAuditId(rows) ==
    IF rows = <<>> THEN 1
    ELSE 1 + CHOOSE m \in {rows[r].audit_id : r \in DOMAIN rows} :
                 \A r \in DOMAIN rows : rows[r].audit_id <= m

\* insert_audit_to_database: the table afterwards and the audit_id returned,
\* 0 standing for None; insert_ok is whether the connection and the INSERT worked
InsertAuditToDatabase(rows, audit_name, category, insert_ok) ==
    IF insert_ok
    THEN [rows |-> Append(rows, [audit_id |-> NextAuditId(rows),
                                 audit_name |-> audit_name,
                                 category |-> category]),
          audit_id |-> NextAuditId(rows)]
    ELSE [rows |-> rows, audit_id |-> 0]

\* what a handler of the code generation agent leaves behind
Generated(e, rows) == [e |-> e, rows |-> rows]

\* approve_and_save_code
ApproveAndSaveCode(e, rows, feedback, save_ok, insert_ok) ==
    LET session_data == e.sessions
        saved == SaveAuditToFile(e.files, session_data.current_code,
                                 feedback.audit_name, save_ok)
        inserted == InsertAuditToDatabase(rows, feedback.audit_name,
                                          feedback.category, insert_ok)
    IN IF Falsy(feedback.audit_name) \/ Falsy(feedback.category)
       THEN Generated(e, rows)
       ELSE IF ~session_data.stored \/ session_data.mop_filename # feedback.mop_filename
       THEN Generated(e, rows)
       ELSE IF session_data.current_code = 0 THEN Generated(e, rows)
       ELSE IF ~saved.success THEN Generated(e, rows)
       ELSE IF inserted.audit_id # 0
       THEN Generated([e EXCEPT !.files = saved.files,
                                !.sessions.status = "approved_and_saved",
                                !.sessions.saved_path = saved.relative_path,
                                !.sessions.audit_id = inserted.audit_id],
                      inserted.rows)
       ELSE Generated([e EXCEPT !.files = saved.files], inserted.rows)

\* a CodeGenerationResponse published to the engineer
CodeGenerationResponse(mop_filename, iteration_number, status) ==
    [mop_filename |-> mop_filename, iteration_number |-> iteration_number,
     status |-> status]

ValidationStatus(is_valid) == IF is_valid THEN "generated" ELSE "validation_failed"

\* handle_refinement_request and refine_existing_code: the code of the next
\* iteration becomes current_code, the status stays
RefineExistingCode(e, rows, feedback, is_valid) ==
    LET session_data == e.sessions
        iteration_number == session_data.iterations + 1
    IN IF ~session_data.stored \/ session_data.mop_filename # feedback.mop_filename
       THEN Generated(e, rows)
       ELSE Generated([e EXCEPT !.sessions.iterations = iteration_number,
                                !.sessions.current_code = iteration_number,
                                !.to_engineer =
                                    Append(@, CodeGenerationResponse(
                                                  feedback.mop_filename,
                                                  iteration_number,
                                                  ValidationStatus(is_valid)))],
                      rows)

\* reject_code; rejected_at is no field of session_data: it records which
\* iteration was current when the rejection came
RejectCode(e, rows, feedback) ==
    IF e.sessions.stored /\ e.sessions.mop_filename = feedback.mop_filename
    THEN Generated([e EXCEPT !.sessions.status = "rejected",
                             !.sessions.rejected_at = e.sessions.iterations],
                   rows)
    ELSE Generated(e, rows)

\* CodeGenerationAgent.handle_generation_request with generate_initial_code: a
\* new session_data replaces the one of the file; the code is that of the first
\* iteration, valid or not
HandleGenerationRequest(is_valid) ==
    /\ engineering.to_codegen # <<>>
    /\ Head(engineering.to_codegen).type = "CodeGenerationRequest"
    /\ LET request == Head(engineering.to_codegen)
       IN engineering' =
             [engineering EXCEPT
                 !.to_codegen = Tail(@),
                 !.sessions = [stored |-> TRUE,
                               mop_filename |-> request.mop_filename,
                               status |-> "pending_review",
                               current_code |-> 1, iterations |-> 1,
                               saved_path |-> <<>>, audit_id |-> 0,
                               rejected_at |-> 0],
                 !.to_engineer =
                     Append(@, CodeGenerationResponse(request.mop_filename, 1,
                                                      ValidationStatus(is_valid)))]
    /\ UNCHANGED <<engineer_tasks, db_audits>>
    /\ EngineeringFrame

\* CodeGenerationAgent.handle_code_feedback
HandleCodeFeedback(save_ok, insert_ok, is_valid) ==
    /\ engineering.to_codegen # <<>>
    /\ Head(engineering.to_codegen).type = "CodeFeedback"
    /\ LET msg == Head(engineering.to_codegen)
           e == [engineering EXCEPT !.to_codegen = Tail(@)]
           out == IF msg.action = "approve"
                  THEN ApproveAndSaveCode(e, db_audits, msg, save_ok, insert_ok)
                  ELSE IF msg.action = "refine"
                  THEN RefineExistingCode(e, db_audits, msg, is_valid)
                  ELSE IF msg.action = "reject"
                  THEN RejectCode(e, db_audits, msg)
                  ELSE Generated(e, db_audits)
       IN /\ engineering' = out.e
          /\ db_audits' = out.rows
    /\ UNCHANGED engineer_tasks
    /\ EngineeringFrame

\* WebSocketEngineerAgent.handle_code_generation_response
HandleCodeGenerationResponse ==
    /\ engineering.to_engineer # <<>>
    /\ LET msg == Head(engineering.to_engineer)
       IN engineering' =
             [engineering EXCEPT
                 !.to_engineer = Tail(@),
                 !.code_sessions = [stored |-> TRUE,
                                    mop_filename |-> msg.mop_filename,
                                    status |-> msg.status,
                                    iteration |-> msg.iteration_number]]
    /\ UNCHANGED <<engineer_tasks, db_audits>>
    /\ EngineeringFrame

EngineeringNext ==
    \/ \E content \in EngineerTexts : EngineerTaskReceived(content)
    \/ \E db_ok \in BOOLEAN : HandleEngineerTask(db_ok)
    \/ \E is_valid \in BOOLEAN : HandleGenerationRequest(is_valid)
    \/ \E save_ok \in BOOLEAN, insert_ok \in BOOLEAN, is_valid \in BOOLEAN :
          HandleCodeFeedback(save_ok, insert_ok, is_valid)
    \/ HandleCodeGenerationResponse

SpecEngineering == EngineeringInit /\ [][EngineeringNext]_vars

\* the runtime delivers every published message to its handler
EngineeringFairness ==
    /\ WF_vars(\E db_ok \in BOOLEAN : HandleEngineerTask(db_ok))
    /\ WF_vars(\E is_valid \in BOOLEAN : HandleGenerationRequest(is_valid))
    /\ WF_vars(\E save_ok \in BOOLEAN, insert_ok \in BOOLEAN, is_valid \in BOOLEAN :
                  HandleCodeFeedback(save_ok, insert_ok, is_valid))
    /\ WF_vars(HandleCodeGenerationResponse)

SpecEngineeringLive == SpecEngineering /\ EngineeringFairness

(***************************************************************************)
(* api_server.py: WebSocketResponseHandler and the copy of WebSocketUserAgent *)
(*                                                                         *)
(* One connected session of a customer. The user agent and the response    *)
(* handler are both subscribed to the user topic: each AgentResponse       *)
(* published there reaches the handler, and reaches it again when the user *)
(* agent has published it once more. The runtime does not deliver a        *)
(* message to the agent that published it.                                 *)
(***************************************************************************)
MaxResponses == 2
MaxSeconds == 1

\* content[:100] of _get_message_hash
HashedLength == 100

\* "if len(...) > 20" and "[:10]" of _is_duplicate
KeptHashes == 20
DiscardedHashes == 10

audit_indicators ==
    {<<"f","o","u","n","d">>,
     <<"r","e","p","o","r","t","s">>,
     <<"a","u","d","i","t","s">>,
     <<"d","e","v","i","c","e","s">>,
     <<"a","u","d","i","t"," ","r","e","p","o","r","t","s",":">>,
     <<"a","v","a","i","l","a","b","l","e"," ","a","u","d","i","t","s",":">>,
     <<"a","v","a","i","l","a","b","l","e"," ","d","e","v","i","c","e","s",":">>,
     <<"n","o"," ","r","e","p","o","r","t","s"," ","f","o","u","n","d">>,
     <<"n","o"," ","a","u","d","i","t","s"," ","f","o","u","n","d">>,
     <<"n","o"," ","d","e","v","i","c","e","s"," ","f","o","u","n","d">>,
     <<"m","a","t","c","h","i","n","g"," ","y","o","u","r"," ","c","r","i","t","e","r","i","a">>,
     <<"r","e","p","o","r","t"," ">>,
     <<"a","u","d","i","t"," ">>,
     <<"d","e","v","i","c","e"," ">>}

technical_phrases ==
    {<<"c","o","d","e"," ","g","e","n","e","r","a","t","i","o","n"," ","c","o","m","p","l","e","t","e">>,
     <<"g","e","n","e","r","a","t","i","n","g"," ","c","o","d","e">>,
     <<"m","o","p"," ","f","i","l","e">>,
     <<"v","a","l","i","d","a","t","i","o","n"," ","f","a","i","l","e","d">>,
     <<"p","a","r","a","m","i","k","o">>,
     <<"s","e","s","s","i","o","n","_","i","d">>,
     <<"i","t","e","r","a","t","i","o","n">>}

customer_friendly ==
    {<<"f","o","r","w","a","r","d","e","d"," ","t","o"," ","o","u","r"," ","e","n","g","i","n","e","e","r","i","n","g"," ","t","e","a","m">>,
     <<"e","n","g","i","n","e","e","r"," ","t","o"," ","p","r","o","c","e","s","s">>,
     <<"a","u","d","i","t"," ","c","r","e","a","t","i","o","n"," ","r","e","q","u","e","s","t">>,
     <<"p","l","e","a","s","e"," ","w","a","i","t"," ","f","o","r"," ","t","h","e"," ","e","n","g","i","n","e","e","r">>,
     <<"s","u","c","c","e","s","s","f","u","l","l","y"," ","c","r","e","a","t","e","d">>,
     <<"c","o","m","p","l","e","t","e","d"," ","s","u","c","c","e","s","s","f","u","l","l","y">>}

technical_keywords ==
    {<<"a","p","p","r","o","v","e">>,
     <<"r","e","j","e","c","t">>,
     <<"d","e","t","a","i","l","s",":">>,
     <<"s","t","a","t","u","s",":">>}

\* _is_audit_retrieval_response
IsAuditRetrievalResponse(content) == AnyIn(audit_indicators, Lower(content))

\* _should_filter_for_customer; technical_phrases stands without its code fence
ShouldFilterForCustomer(content, user_type) ==
    IF user_type # "Customer" THEN FALSE
    ELSE IF IsAuditRetrievalResponse(content) THEN FALSE
    ELSE IF AnyIn(technical_phrases, Lower(content)) THEN TRUE
    ELSE IF AnyIn(customer_friendly, Lower(content)) THEN FALSE
    ELSE AnyIn(technical_keywords, Lower(content)) /\ ~IsAuditRetrievalResponse(content)

\* _get_message_hash for the session: what the digest is taken of, the first
\* characters of the content and the second of the clock
MessageHash(content, clock) ==
    <<SubSeq(content, 1, IF Len(content) < HashedLength THEN Len(content)
                         ELSE HashedLength), clock>>

\* the hashes _is_duplicate may leave behind when it adds one: beyond twenty it
\* discards the first ten of list(set), which are any ten
HashesKept(hashes) ==
    IF Cardinality(hashes) > KeptHashes
    THEN {hashes \ old : old \in {d \in SUBSET hashes : Cardinality(d) = DiscardedHashes}}
    ELSE {hashes}

\* _is_duplicate, with the sets of hashes it may leave in processed_messages
IsDuplicate(processed, content, clock) ==
    IF MessageHash(content, clock) \in processed
    THEN [duplicate |-> TRUE, processed |-> {processed}]
    ELSE [duplicate |-> FALSE,
          processed |-> HashesKept(processed \cup {MessageHash(content, clock)})]

\* the line that opens the list of a long response
Ruler == [i \in 1..HashedLength |-> "-"]

DefaultContent == <<"R","e","q","u","e","s","t"," ","p","r","o","c","e","s","s","e","d"," ","s","u","c","c","e","s","s","f","u","l","l","y",".">>

\* response texts of the agents: a short one, two long ones that differ after
\* their opening, one of the code generation, and an empty one
ResponseTexts ==
    {<<"F","o","u","n","d"," ","2"," ","a","u","d","i","t","s">>,
     Ruler \o <<" ","a","u","d","i","t"," ","1","6">>,
     Ruler \o <<" ","a","u","d","i","t"," ","1","8">>,
     <<"G","e","n","e","r","a","t","i","n","g"," ","c","o","d","e",","," ","p","l","e","a","s","e"," ","w","a","i","t">>,
     <<>>}

ForwardingInit == OrchestratorAtRest /\ ExtractorAtRest /\ TextAtRest

ForwardingFrame ==
    UNCHANGED <<routerVars, db_audits, cached_data, connected, rpc, refreshed,
                audits_data, audit_name_to_id, audit_id_to_name, audit_categories,
                category_to_audits, input_text, set_order, result, recognizer,
                recognized, sessionVars, execution, api, text_call, engineering>>

\* an agent publishes an AgentResponse to the user topic of the session
AgentPublishes(content) ==
    /\ Len(forwarding.responses) < MaxResponses
    /\ LET id == Len(forwarding.responses) + 1
       IN forwarding' = [forwarding EXCEPT
                            !.responses = Append(@, content),
                            !.to_user_agent = Append(@, id),
                            !.to_handler = Append(@, [id |-> id, copy |-> FALSE])]
    /\ ForwardingFrame

\* WebSocketUserAgent.handle_agent_response publishes the message once more
UserAgentHandleAgentResponse ==
    /\ forwarding.to_user_agent # <<>>
    /\ forwarding' = [forwarding EXCEPT
                         !.to_user_agent = Tail(@),
                         !.to_handler = Append(@, [id |-> Head(forwarding.to_user_agent),
                                                   copy |-> TRUE])]
    /\ ForwardingFrame

\* the content handle_agent_response extracts from the message
ResponseContent(content) == IF content = <<>> THEN DefaultContent ELSE content

\* a line of the handler's log
Logged(msg, line) == [id |-> msg.id, copy |-> msg.copy, line |-> line]

\* WebSocketResponseHandler.handle_agent_response for the connected session
ForwardAgentResponse ==
    /\ forwarding.to_handler # <<>>
    /\ LET msg == Head(forwarding.to_handler)
           response_content == ResponseContent(forwarding.responses[msg.id])
           checked == IsDuplicate(forwarding.processed_messages, response_content,
                                  forwarding.clock)
       IN IF ShouldFilterForCustomer(response_content, "Customer")
          THEN forwarding' = [forwarding EXCEPT
                                 !.to_handler = Tail(@),
                                 !.log = Append(@, Logged(msg, "Filtering"))]
          ELSE \E processed \in checked.processed :
                  forwarding' = [forwarding EXCEPT
                                    !.to_handler = Tail(@),
                                    !.processed_messages = processed,
                                    !.to_client = IF checked.duplicate THEN @
                                                  ELSE Append(@, msg),
                                    !.log = Append(@, Logged(msg,
                                               IF checked.duplicate
                                               THEN "Skipping duplicate"
                                               ELSE "Sending"))]
    /\ ForwardingFrame

\* datetime.now() passes into the next second
SecondPasses ==
    /\ forwarding.clock < MaxSeconds
    /\ forwarding' = [forwarding EXCEPT !.clock = @ + 1]
    /\ ForwardingFrame

ForwardingNext ==
    \/ \E content \in ResponseTexts : AgentPublishes(content)
    \/ UserAgentHandleAgentResponse
    \/ ForwardAgentResponse
    \/ SecondPasses

SpecForwarding == ForwardingInit /\ [][ForwardingNext]_vars




(***************************************************************************)
(* Properties of the resolver                                              *)
(*                                                                         *)
(* The conditions of the stages are stated on audits_data, the snapshot    *)
(* the call worked on, not on the lookup maps the stages read.             *)
(***************************************************************************)
Extracted == rpc = "extracted"
TextClean == PreprocessText(input_text)
CatalogIds == {audits_data[i].audit_id : i \in 1..Len(audits_data)}
CapturesOf(k) == FindAll(audit_id_patterns[k], TextClean)
Patterns == 1..Len(audit_id_patterns)

\* the places of the captures of pattern k that are ids of the snapshot
KnownAt(k) == {j \in 1..Len(CapturesOf(k)) : CapturesOf(k)[j] \in CatalogIds}

\* the matching conditions of the five stages
IdHit == \E k \in Patterns : KnownAt(k) # {}
NameHit ==
    \E i \in 1..Len(audits_data) : Contains(TextClean, Lower(audits_data[i].audit_name))
CategoryHit ==
    \E i \in 1..Len(audits_data) :
        Contains(TextClean, Lower(audits_data[i].audit_category))
PctOf(i) == MatchPercentage(Lower(audits_data[i].audit_name), TextClean)
FuzzyNameHit == \E i \in 1..Len(audits_data) : ~FracLess(PctOf(i), Half)
Resembled(category) ==
    \E t \in 1..Len(Split(TextClean)) :
        AtLeastFuzzyThreshold(Similarity(Split(TextClean)[t], category))
FuzzyCategoryHit ==
    \E i \in 1..Len(audits_data) : Resembled(Lower(audits_data[i].audit_category))

Kinds == {e.kind : e \in result.entities}
EntityOf(kind) == CHOOSE e \in result.entities : e.kind = kind
AuditsOfCategory(category) ==
    SelectSeq(audits_data, LAMBDA a : Lower(a.audit_category) = category)

IsSpecificAudit ==
    /\ result.type = "specific_audit" /\ result.success
    /\ Kinds = {"audit_id", "audit_name"} /\ Cardinality(result.entities) = 2
IsCategoryClarification ==
    /\ result.type = "category_clarification" /\ result.success
    /\ Kinds = {"audit_category"} /\ Cardinality(result.entities) = 1
    /\ result.category_audits = AuditsOfCategory(EntityOf("audit_category").value)

\* the outcome each stage produces
ByExactId ==
    /\ IsSpecificAudit
    /\ \A e \in result.entities : e.confidence = Exact
    /\ LET k == CHOOSE p \in Patterns :
                   KnownAt(p) # {} /\ \A q \in Patterns : KnownAt(q) # {} => p <= q
           j == CHOOSE c \in KnownAt(k) : \A d \in KnownAt(k) : c <= d
       IN /\ EntityOf("audit_id").value = CapturesOf(k)[j]
          /\ \E i \in 1..Len(audits_data) :
                /\ audits_data[i].audit_id = CapturesOf(k)[j]
                /\ EntityOf("audit_name").value = audits_data[i].audit_name
ByExactName ==
    /\ IsSpecificAudit
    /\ \A e \in result.entities : e.confidence = Exact
    /\ \E i \in 1..Len(audits_data) :
          /\ Contains(TextClean, Lower(audits_data[i].audit_name))
          /\ EntityOf("audit_name").value = Lower(audits_data[i].audit_name)
          /\ EntityOf("audit_id").value = audits_data[i].audit_id
ByExactCategory ==
    /\ IsCategoryClarification
    /\ EntityOf("audit_category").confidence = Exact
    /\ Contains(TextClean, EntityOf("audit_category").value)
    /\ AuditsOfCategory(EntityOf("audit_category").value) # <<>>
ByFuzzyName ==
    /\ IsSpecificAudit
    /\ \E i \in 1..Len(audits_data) :
          /\ ~FracLess(PctOf(i), Half)
          /\ \A j \in 1..Len(audits_data) :
                /\ ~FracLess(PctOf(i), PctOf(j))
                /\ j < i => FracLess(PctOf(j), PctOf(i))
          /\ EntityOf("audit_name").value = Lower(audits_data[i].audit_name)
          /\ EntityOf("audit_id").value = audits_data[i].audit_id
          /\ \A e \in result.entities :
                /\ e.confidence.num * 100 * PctOf(i).den
                      = 85 * PctOf(i).num * e.confidence.den
                /\ ~FracLess(Exact, e.confidence)
ByFuzzyCategory ==
    /\ IsCategoryClarification
    /\ EntityOf("audit_category").confidence = Fuzzy
    /\ Resembled(EntityOf("audit_category").value)
    /\ AuditsOfCategory(EntityOf("audit_category").value) # <<>>
ByNoStage ==
    /\ result.type = "no_match" /\ ~result.success
    /\ result.entities = {} /\ result.category_audits = <<>>

AuditNumbers == {IntOf(CapturesOf(1)[j]) : j \in 1..Len(CapturesOf(1))}
CatalogNumbers == {IntOf(audits_data[i].audit_id) : i \in 1..Len(audits_data)}

\* C9: when the normalized text has "audit <n>" and the number n is the id of
\* an audit of the snapshot, the call returns specific_audit with audit_id and
\* audit_name at confidence 1.0, the id being a captured number of the
\* snapshot and the name the display name of that audit.
C9_AuditNumberResolves ==
    (Extracted /\ AuditNumbers \cap CatalogNumbers # {}) =>
        /\ IsSpecificAudit
        /\ \A e \in result.entities : e.confidence = Exact
        /\ \E i \in 1..Len(audits_data) :
              /\ EntityOf("audit_id").value = audits_data[i].audit_id
              /\ EntityOf("audit_name").value = audits_data[i].audit_name
              /\ \E k \in Patterns :
                    \E j \in 1..Len(CapturesOf(k)) :
                       IntOf(CapturesOf(k)[j]) = IntOf(audits_data[i].audit_id)

\* some pattern of stage 1 captured a number
Captured == \E k \in Patterns : CapturesOf(k) # <<>>

\* C10 as stated: whenever the numbers stage 1 captured are all unknown to
\* the snapshot, the call returns what stages 2 to 5 produce for the text.
C10_UnknownIdFallsThrough ==
    (Extracted /\ Captured /\ ~IdHit) =>
        result = StagesAfterExactId(Self, TextClean, set_order)

\* C10, on a snapshot that is not empty: whenever no captured number is an id
\* of the snapshot, the call returns what stages 2 to 5 produce for the text,
\* which is no specific_audit at confidence 1.0 by id and is not cut short.
C10_UnknownIdFallsThroughNonEmpty ==
    (Extracted /\ audits_data # <<>> /\ ~IdHit) =>
        /\ result = StagesAfterExactId(Self, TextClean, set_order)
        /\ result.type # "no_data"
        /\ ~ByNoStage => (NameHit \/ CategoryHit \/ FuzzyNameHit \/ FuzzyCategoryHit)

\* an unknown number was captured and a later stage, the fuzzy names, answered
C10_Witness ==
    /\ Extracted /\ audits_data # <<>>
    /\ Captured
    /\ ~IdHit /\ ~NameHit /\ ~CategoryHit
    /\ result.type = "specific_audit"
    /\ FracLess(EntityOf("audit_id").confidence, Exact)
(***************************************************************************)
(* Properties of the data loading                                          *)
(***************************************************************************)
\* the call at hand is the step from idle to extracted
ExtractStep == rpc = "idle" /\ rpc' = "extracted"
\* the construction of the extractor is the step from boot to idle
ConstructStep == rpc = "boot" /\ rpc' = "idle"

\* some number stage 1 captured is a key of audit_id_to_name
CapturedIndexedId ==
    \E k \in Patterns :
        \E j \in 1..Len(CapturesOf(k)) : DictHas(audit_id_to_name, CapturesOf(k)[j])

\* C11: whenever extract_audit_entities ran while the extractor held no
\* audits, it returned normally with type no_data, success false and no
\* entities, whatever the text and whatever the lookup maps hold: the test
\* of audits_data comes before every matching stage.
C11_NoDataWhenNoAudits ==
    (Extracted /\ audits_data = <<>>) =>
        /\ result.type = "no_data"
        /\ ~result.success
        /\ result.entities = {}
        /\ result.category_audits = <<>>

\* the table has audits but could not be reached, nothing was loaded before,
\* the text names an audit by number, and the call returned no_data
C11_Witness ==
    /\ Extracted /\ audits_data = <<>>
    /\ db_audits # <<>> /\ ~connected
    /\ Captured
    /\ result = NoData

\* C12 as stated: a refresh_data_if_needed that finds the table unreachable
\* or empty returns False and leaves the extractor's audits and lookup maps
\* and the cache that get_cached_data returns as they were before the call.
C12_FailedRefreshKeepsSnapshot ==
    [][(ExtractStep /\ (~connected' \/ db_audits = <<>>)) =>
          /\ ~refreshed'
          /\ Self' = Self
          /\ GetCachedData(cached_data)' = GetCachedData(cached_data)]_vars

\* C13 as stated: an extractor constructed while the table is unreachable,
\* after an earlier refresh_all_data of the process had cached a non-empty
\* list of audits, serves that cached list.
C13_FallbackServesCachedSnapshot ==
    [][(/\ ConstructStep
        /\ cached_data.loaded /\ cached_data.audits # <<>>
        /\ ~connected') =>
          audits_data' = cached_data.audits]_vars

\* the lookup maps a complete build over the records gives, stated on the
\* records: every name, id and category is indexed, and nothing else is
IndexedFrom(records) ==
    /\ {audit_name_to_id[i].key : i \in 1..Len(audit_name_to_id)}
          = {Lower(records[i].audit_name) : i \in 1..Len(records)}
    /\ {audit_id_to_name[i].key : i \in 1..Len(audit_id_to_name)}
          = {records[i].audit_id : i \in 1..Len(records)}
    /\ audit_categories = {Lower(records[i].audit_category) : i \in 1..Len(records)}
    /\ {category_to_audits[i].key : i \in 1..Len(category_to_audits)} = audit_categories
    /\ \A i \in 1..Len(category_to_audits) :
          category_to_audits[i].value =
              SelectSeq(records, LAMBDA a : Lower(a.audit_category) = category_to_audits[i].key)

\* C14 as stated: whenever the extractor exists and can be asked, its four
\* lookup maps are the complete maps of the audits it holds as audits_data.
C14_IndicesOfCurrentSnapshot ==
    rpc \in {"idle", "extracted"} => IndexedFrom(audits_data)
(***************************************************************************)
(* Properties of the fuzzy stages and of the category listing              *)
(***************************************************************************)
\* stages 1 to 3 found nothing in the text of the call at hand
FuzzyStagesReached ==
    Extracted /\ audits_data # <<>> /\ ~IdHit /\ ~NameHit /\ ~CategoryHit

\* the words of the name of audit i that some word of the text resembles
SimilarWords(i) ==
    LET name_words == Split(Lower(audits_data[i].audit_name))
        text_words == Split(TextClean)
    IN {w \in 1..Len(name_words) :
           \E t \in 1..Len(text_words) :
               LET r == Similarity(name_words[w], text_words[t])
               IN 100 * r.num >= 70 * r.den}

\* match_percentage of audit i as the claim defines it
ClaimedPercentage(i) ==
    [num |-> Cardinality(SimilarWords(i)),
     den |-> Len(Split(Lower(audits_data[i].audit_name)))]

\* the audits whose match_percentage is at least 0.50
Eligible == {i \in 1..Len(audits_data) : 2 * ClaimedPercentage(i).num >= ClaimedPercentage(i).den}

\* the first, in catalog order, of the eligible audits of highest percentage
BestEligible ==
    CHOOSE i \in Eligible :
        \A j \in Eligible :
            /\ ~FracLess(ClaimedPercentage(i), ClaimedPercentage(j))
            /\ j < i => FracLess(ClaimedPercentage(j), ClaimedPercentage(i))

BetterResembled(c, d) ==
    \E t \in 1..Len(Split(TextClean)) :
        \A u \in 1..Len(Split(TextClean)) :
            FracLess(Similarity(Split(TextClean)[u], d), Similarity(Split(TextClean)[t], c))

\* C17 as stated: a fuzzy stage returns the best-scoring candidate of the
\* whole vocabulary: the fuzzy name returned has the highest match
\* percentage of all names, and no category of the snapshot resembles a word
\* of the text more closely than the category a fuzzy category match returns.
C17_FuzzyStagesReturnBest ==
    FuzzyStagesReached =>
        /\ (Eligible # {} =>
               EntityOf("audit_id").value = audits_data[BestEligible].audit_id)
        /\ (result.type = "category_clarification" =>
               \A i \in 1..Len(audits_data) :
                  ~BetterResembled(Lower(audits_data[i].audit_category),
                                   EntityOf("audit_category").value))

Recognized == rpc = "recognized" /\ ~recognized.raised
RecognizedKinds == {e.kind : e \in recognized.entities}

\* the identifying entities a result may hold
IdentifyingKinds == {{}, {"audit_id", "audit_name"}, {"audit_category"}}

\* C18: the entities extract_audit_entities returns, in the execution
\* extractor and in the recognizer, are an audit_id with an audit_name, or
\* one audit_category, or none, one entity of each kind: an id or a name
\* never comes with a category.
C18_OneIdentifyingKind ==
    /\ Extracted =>
          /\ Kinds \in IdentifyingKinds
          /\ Cardinality(result.entities) = Cardinality(Kinds)
    /\ Recognized =>
          /\ RecognizedKinds \in IdentifyingKinds
          /\ Cardinality(recognized.entities) = Cardinality(RecognizedKinds)

\* the text names an audit of the recognizer by number and has a word that
\* is one of its categories when case is ignored; the id and the name came
\* back alone
C18_Witness ==
    /\ Recognized
    /\ RecognizedKinds = {"audit_id", "audit_name"}
    /\ \E i \in 1..Len(recognizer.audit_categories) :
          Contains(TextClean, Lower(recognizer.audit_categories[i]))
(***************************************************************************)
(* Properties of the parse of the LLM's classification                     *)
(***************************************************************************)
\* the keyword extract_intent_from_llm_response is said to look for, by label
LabelKeyword ==
    [LIST_AUDITS |-> KwListAudits,
     AUDIT_RETRIEVAL_BY_CATEGORY |-> KwByCategory,
     GET_AUDIT_HISTORY_FILTERED |-> KwHistoryFiltered,
     GET_AUDIT_HISTORY |-> KwHistory,
     EXECUTE_AUDIT |-> KwExecute,
     ENGINEER_AUDIT |-> KwEngineer]

\* the "low_confidence" call of this request has returned and was parsed
Clarified == scenario_log # <<>> /\ scenario_log[1] = "low_confidence"

\* the label the parse gave, as handle_task went on with it
ReportedLabel == IF routed_intent = NoIntent THEN "GENERAL" ELSE routed_intent

\* C21: the parse of the LLM's text gives GENERAL exactly when the
\* lower-cased text holds none of the six keywords, otherwise a label whose
\* keyword is in the text, and never GET_AUDIT_HISTORY for a text that
\* names get_audit_history_filtered.
C21_KeywordParse ==
    Clarified =>
      LET response_lower == Lower(llm_response) IN
      /\ (ReportedLabel = "GENERAL") <=>
            (\A l \in DOMAIN LabelKeyword : ~Contains(response_lower, LabelKeyword[l]))
      /\ ReportedLabel # "GENERAL" =>
            Contains(response_lower, LabelKeyword[ReportedLabel])
      /\ Contains(response_lower, KwHistoryFiltered) =>
            ReportedLabel # "GET_AUDIT_HISTORY"

\* the LLM answered GET_AUDIT_HISTORY_FILTERED, which holds the keyword of
\* the plain history as well, and the filtered label was reported
C21_Witness ==
    /\ Clarified
    /\ llm_response = RespHistoryFiltered
    /\ Contains(Lower(llm_response), KwHistory)
    /\ ReportedLabel = "GET_AUDIT_HISTORY_FILTERED"

(***************************************************************************)
(* Properties of the dispatch                                              *)
(***************************************************************************)
\* the labels route_to_agent hands to another agent
DelegatedLabels == {"LIST_AUDITS", "AUDIT_RETRIEVAL_BY_CATEGORY",
                    "GET_AUDIT_HISTORY", "GET_AUDIT_HISTORY_FILTERED",
                    "EXECUTE_AUDIT"}

\* route_to_agent has returned for a label it hands to another agent
Delegated == pc = "done" /\ routed_intent \in DelegatedLabels

\* handler and action the dispatch is said to choose for each label
Dispatch ==
    [LIST_AUDITS |-> [handler |-> AUDIT_RETRIEVAL_AGENT_TOPIC,
                      action |-> "list_audits"],
     AUDIT_RETRIEVAL_BY_CATEGORY |-> [handler |-> AUDIT_RETRIEVAL_AGENT_TOPIC,
                                      action |-> "get_audits_by_category"],
     GET_AUDIT_HISTORY |-> [handler |-> AUDIT_RETRIEVAL_AGENT_TOPIC,
                            action |-> "get_audit_history"],
     GET_AUDIT_HISTORY_FILTERED |-> [handler |-> AUDIT_RETRIEVAL_AGENT_TOPIC,
                                     action |-> "get_audit_history_filtered"],
     EXECUTE_AUDIT |-> [handler |-> EXECUTE_AUDIT_AGENT_TOPIC,
                        action |-> "execute_audit"]]

\* C20: for each of the five delegated labels route_to_agent publishes
\* exactly one task, to the handler and with the action of the table, which
\* is the topic INTENT_MAPPING gives for the label; the task carries the
\* whole conversation context, the intent, the action and the text of the
\* user's last message.
C20_DispatchPublishesOneTask ==
    Delegated =>
      /\ Len(to_handlers) = 1
      /\ LET task == to_handlers[1]
             context == message.context
         IN /\ task.type = "UserTask"
            /\ task.topic = Dispatch[routed_intent].handler
            /\ task.topic = INTENT_MAPPING[routed_intent]
            /\ task.action = Dispatch[routed_intent].action
            /\ task.intent = routed_intent
            /\ task.context = context
            /\ context[Len(context)].source = "user"
            /\ task.original_message = context[Len(context)].content

\* the LLM clarified a low-confidence message of a two-entry conversation
\* as a filtered history request and the task went to the retrieval agent
C20_Witness ==
    /\ Delegated
    /\ routed_intent = "GET_AUDIT_HISTORY_FILTERED"
    /\ scenario_log = <<"low_confidence">>
    /\ Len(to_handlers) = 1
    /\ Len(to_handlers[1].context) = 2
    /\ to_handlers[1].topic = AUDIT_RETRIEVAL_AGENT_TOPIC

(***************************************************************************)
(* Properties of a session                                                 *)
(***************************************************************************)
\* the accepted messages whose handling has not come to its end
InFlight == {n \in 1..accepted : stage[n] \notin {"delivered", "no_response"}}

\* a message was accepted while the one before it was still being handled
AcceptedBeforeCompletion == Cardinality(InFlight) > 1

\* C15: the responses of a session are sent in the order in which its
\* messages were sent, because each message is handled to completion before
\* the next one is accepted.
C15_ResponsesInRequestOrder ==
    \A i, j \in 1..Len(delivered) : i < j => delivered[i] < delivered[j]
(***************************************************************************)
(* Properties of the execution                                             *)
(***************************************************************************)
\* safe_execute_audit is waiting for execute_audit_by_identifier
Executing == execution.pc = "on_device"

\* safe_execute_audit has returned
ExecutionOver == execution.pc \in {"returned", "reported", "responded"}

\* the collaborator had not returned when the budget was used up
Overran == execution.elapsed > timeout_seconds

\* C22: the handler of an execution is never waiting for the collaborator
\* beyond the 30 seconds of the timeout, and an execution that had not
\* returned by then has ended as failed with the timeout text.
C22_ExecutionBoundedByTimeout ==
    /\ Executing => execution.elapsed <= timeout_seconds
    /\ (ExecutionOver /\ Overran) =>
          /\ ~execution.success
          /\ execution.message = SafeResult("TimeoutError").message

\* the report of the execution has been written
Reported == execution.pc \in {"reported", "responded"}

\* C23: an execution that took longer than its timeout ends with a result
\* of safe_execute_audit and with a report status that differ from those of
\* an execution that failed with an error.
C23_TimeoutDistinctFromFailure ==
    (Reported /\ Overran) =>
       /\ [success |-> execution.success, message |-> execution.message]
             # SafeResult("Exception")
       /\ execution.status # ReportStatus(SafeResult("Exception").success)

\* C30: the audit execute_audit_by_identifier looked up and ran on the
\* devices is the row of the table whose audit_id is the id the extractor
\* gave.
C30_ExecutesResolvedAudit ==
    execution.on_devices => Str(execution.looked_up) = execution.audit_id
(***************************************************************************)
(* Properties of the REST gateway                                          *)
(***************************************************************************)
ApiRequests == 1..MaxApiRequests

\* the request ended because no response came within the timeout
TimedOut(r) == api.requests[r].pc = "done" /\ api.requests[r].ending = "TimeoutError"

\* C24: a REST request without a response within 60 seconds does not wait
\* on: it ends with HTTP 408, which is not the 500 of a processing error,
\* and its entry in response_handlers is removed.
C24_TimeoutIs408 ==
    \A r \in ApiRequests :
       /\ Waiting(r) => api.clock - api.requests[r].started <= response_timeout
       /\ TimedOut(r) =>
             /\ api.requests[r].status_code = 408
             /\ api.requests[r].status_code # StatusCode("Exception")
             /\ \A s \in ApiSessions : api.response_handlers[s] # r

\* the future of the waiting request is the one stored under its session_id
FutureKept(r) == api.response_handlers[api.requests[r].session] = r

\* the future of the request was set with the response to its own message
OwnResponse(r) == api.requests[r].resolved_by = r

\* C40: whatever the interleaving of the REST requests, those with the same
\* session_id included, a request that waits still has its own future stored
\* under its session_id, and a request whose future was set got the
\* AgentResponse produced for its own message.
C40_EachRequestOwnResponse ==
    \A r \in ApiRequests :
       /\ Waiting(r) => FutureKept(r)
       /\ api.requests[r].answered => OwnResponse(r)

\* two requests of one session_id wait at the same time
SameSessionConcurrent ==
    \E q, r \in ApiRequests :
       /\ q # r
       /\ Waiting(q) /\ Waiting(r)
       /\ api.requests[q].session = api.requests[r].session
(***************************************************************************)
(* Properties of the classifier                                            *)
(***************************************************************************)
\* C25: the weights of the classifier are loaded at most once in the
\* process, whatever the number of messages classified.
C25_WeightsLoadedOnce == classifier.loads <= 1

\* the weights could not be loaded in the call of the request at hand
LoadFailed == classifier.last = "load_failed"

\* C26: when the weights cannot be loaded the classification raises: no
\* label and no confidence are returned, and the request makes no dispatch,
\* no LLM call and no reply on a classification that was never made.
C26_LoadFailureRaises ==
    LoadFailed =>
       /\ pc = "raised"
       /\ predicted = NoPrediction
       /\ routed_intent = NoIntent
       /\ scenario_log = <<>>
       /\ to_handlers = <<>>
       /\ to_user = <<>>

\* the second message of the process met weights that could not be read,
\* after a first one that was classified
C26_Witness ==
    /\ LoadFailed
    /\ classifier.calls = 2
    /\ classifier.loads = 1
    /\ pc = "raised"
(***************************************************************************)
(* Properties of the entities of the recognizer                            *)
(***************************************************************************)
\* the alias stage gave the result of extract_audit_entities
AliasMatched ==
    /\ Recognized
    /\ recognizer.loaded
    /\ ~RecognizeIdFrom(recognizer, PreprocessText(input_text), 1).hit
    /\ ~RecognizeName(recognizer, PreprocessText(input_text)).hit
    /\ RecognizeAlias(recognizer, PreprocessText(input_text)).hit

\* C27: an alias match carries 0.80 on audit_name and audit_id, a
\* device_name and a device_category entity carry 0.85 each, and a
\* time_range entity carries 0.90.
C27_EntityConfidences ==
    /\ AliasMatched =>
          \A e \in recognized.entities :
             e.kind \in {"audit_name", "audit_id"} /\ e.confidence = Alias
    /\ rpc = "context" =>
          \A e \in recognized.entities :
             /\ e.kind \in {"device_name", "device_category"} => e.confidence = Device
             /\ e.kind = "time_range" => e.confidence = Time
(***************************************************************************)
(* Properties of similarity and of preprocess_text                         *)
(***************************************************************************)
SimilarityReturned == text_call.fn = "similarity" /\ text_call.returned

\* the value of similarity lies in [0, 1]
SimilarityInUnitInterval ==
    SimilarityReturned =>
       /\ 0 <= text_call.out.num
       /\ text_call.out.num <= text_call.out.den

\* the value of similarity does not depend on the case of the letters
SimilarityIgnoresCase ==
    SimilarityReturned =>
       text_call.out = Similarity(Lower(text_call.a), Lower(text_call.b))

\* C28: similarity is symmetric: similarity(a, b) = similarity(b, a) for
\* all strings a and b.
C28_SimilaritySymmetric ==
    SimilarityReturned => text_call.out = Similarity(text_call.b, text_call.a)

Normalized == text_call.fn = "preprocess_text" /\ text_call.returned

\* the example of the normalization: "Audit-16!" and "audit 16"
NormalizeExample ==
    PreprocessText(<<"A","u","d","i","t","-","1","6","!">>)
       = PreprocessText(<<"a","u","d","i","t"," ","1","6">>)

\* the normalized text is in lower case with single spaces between words
NormalizedShape ==
    Normalized =>
       /\ Join(Split(text_call.out)) = text_call.out
       /\ \A i \in 1..Len(text_call.out) :
             text_call.out[i] \notin {UpperCase[k] : k \in 1..Len(UpperCase)}

\* C29: preprocess_text is idempotent, and it turns every punctuation
\* character into whitespace, so that a text and the same text with spaces
\* for its punctuation normalize alike.
C29_NormalizeIdempotent ==
    Normalized =>
       /\ PreprocessText(text_call.out) = text_call.out
       /\ text_call.out = PreprocessText(PunctuationToSpace(text_call.a))
(***************************************************************************)
(* Properties of the outcome of an execution                               *)
(***************************************************************************)
\* C31: an execution is recorded as completed, and reported to the user as
\* a success, only if the audit was found in the table and was run on a
\* compatible device at least.
C31_CompletedOnlyIfRun ==
    (Reported /\ execution.status = ReportStatus(TRUE)) =>
       /\ execution.looked_up # 0
       /\ execution.on_devices
(***************************************************************************)
(* Properties of the audit a result names                                  *)
(***************************************************************************)
\* the entity of a kind in the result of the recognizer
RecognizedOf(kind) == CHOOSE e \in recognized.entities : e.kind = kind

\* the execution extractor returned an audit: its id and its name are those
\* of one audit of audits_data
ExtractedAuditOfCatalog ==
    (Extracted /\ result.type = "specific_audit") =>
       \E i \in 1..Len(audits_data) :
          /\ audits_data[i].audit_id = EntityOf("audit_id").value
          /\ audits_data[i].audit_name = EntityOf("audit_name").value

\* the recognizer returned an audit: its id and its name are those of one
\* audit of the data the recognizer loaded
RecognizedAuditOfCatalog ==
    (Recognized /\ RecognizedKinds = {"audit_id", "audit_name"}) =>
       \E i \in 1..Len(recognizer.audit_ids) :
          /\ recognizer.audit_ids[i] = RecognizedOf("audit_id").value
          /\ recognizer.audit_names[i] = RecognizedOf("audit_name").value

\* C32: in every result that names an audit, of the execution extractor and
\* of the recognizer, the audit_id is the id of an audit of the snapshot and
\* the audit_name is the name of that audit as it is stored.
C32_ResultNamesCatalogAudit ==
    ExtractedAuditOfCatalog /\ RecognizedAuditOfCatalog
(***************************************************************************)
(* Properties of the freshness of the two resolvers                        *)
(***************************************************************************)
\* the audits of the table as load_audits_data_from_db reads them now
TableAudits == LoadAuditsDataFromDb(db_audits, TRUE)

\* a call of the execution extractor that reached the database works on
\* the audits the table holds at that time
ExecutionResolvesOnTable ==
    [][(rpc = "idle" /\ rpc' = "extracted" /\ connected'
          /\ AuditNull \notin {db_audits[i] : i \in 1..Len(db_audits)})
       => audits_data' = TableAudits']_vars

\* a call of a recognizer that has loaded audits works on the audits the
\* table holds at that time
RecognizerResolvesOnTable ==
    [][(rpc = "idle" /\ rpc' = "recognized" /\ recognizer.audit_ids # <<>>)
       => /\ recognizer'.audit_ids =
                [i \in 1..Len(TableAudits') |-> TableAudits'[i].audit_id]
          /\ recognizer'.audit_names =
                [i \in 1..Len(TableAudits') |-> TableAudits'[i].audit_name]]_vars

\* C33: a resolution that follows the insertion of an audit into the table
\* knows that audit, in the execution extractor and in the recognizer of the
\* retrieval agent alike: each resolution of a resolver that has loaded
\* audits works on the table as it is then.
C33_ResolversSeeInsertedAudit ==
    [][/\ (rpc = "idle" /\ rpc' = "extracted" /\ connected'
             /\ AuditNull \notin {db_audits[i] : i \in 1..Len(db_audits)})
          => audits_data' = TableAudits'
       /\ (rpc = "idle" /\ rpc' = "recognized" /\ recognizer.audit_ids # <<>>)
          => /\ recognizer'.audit_ids =
                   [i \in 1..Len(TableAudits') |-> TableAudits'[i].audit_id]
             /\ recognizer'.audit_names =
                   [i \in 1..Len(TableAudits') |-> TableAudits'[i].audit_name]]_vars
(***************************************************************************)
(* Properties of the category stage of the recognizer                      *)
(***************************************************************************)
\* the recognizer returned a category alone
CategoryRecognized == Recognized /\ RecognizedKinds = {"audit_category"}

\* a category of the recognizer stands in the normalized text as it is
SomeCategoryContained ==
    \E i \in 1..Len(recognizer.audit_categories) :
       /\ recognizer.audit_categories[i] # None
       /\ Contains(TextClean, recognizer.audit_categories[i])

\* C34: when the normalized text contains a category of the recognizer
\* exactly, the audit_category returned is a category the text contains,
\* with the confidence of a category match, whatever the order of the
\* categories: a category the text only resembles does not come first.
C34_ExactCategoryBeforeFuzzy ==
    (CategoryRecognized /\ SomeCategoryContained) =>
       /\ Contains(TextClean, RecognizedOf("audit_category").value)
       /\ RecognizedOf("audit_category").confidence = Category

(***************************************************************************)
(* Properties of the engineer session and of the generated code           *)
(***************************************************************************)
\* the n-th EngineerTask of the session is with handle_engineer_task
TaskReceived(n) == engineering.task.n = n /\ engineering.task.pc = "received"

\* an AgentResponse for the n-th EngineerTask is on the engineer topic
TaskAnswered(n) == engineering.task.n = n /\ engineering.task.responses > 0

\* C35: every EngineerTask that handle_engineer_task receives, a conversational
\* one such as 'help', 'status' or 'list' included, eventually has at least one
\* AgentResponse published to the engineer topic of its session
C35_EveryTaskAnswered ==
    \A n \in 1..MaxEngineerInputs : TaskReceived(n) ~> TaskAnswered(n)

\* a customer's request for a new audit is stored, and the generated code was
\* approved and saved as an audit
RequestedAuditSaved ==
    /\ \E r \in DOMAIN engineer_tasks : engineer_tasks[r].task_type = "create_new_audit"
    /\ engineering.sessions.status = "approved_and_saved"

\* an EngineerNotification with message 'created' is published to the orchestrator
CreatedNotified ==
    \E i \in DOMAIN engineering.notifications :
        engineering.notifications[i].message = "created"

\* C36: once the code for a stored and forwarded customer request is approved
\* and saved, an EngineerNotification 'created' eventually reaches the
\* orchestrator, which forwards it to the customer's session
C36_SavedAuditNotified == RequestedAuditSaved ~> CreatedNotified

\* handle_code_feedback takes an approve from the topic
ApproveStep ==
    /\ engineering.to_codegen # <<>>
    /\ Head(engineering.to_codegen).action = "approve"
    /\ engineering'.to_codegen = Tail(engineering.to_codegen)

\* the script is written, the row inserted and the session marked with its id
AllSaved ==
    /\ [name |-> CreateAuditFilename(Head(engineering.to_codegen).audit_name),
        code |-> engineering.sessions.current_code] \in engineering'.files
    /\ Len(db_audits') = Len(db_audits) + 1
    /\ engineering'.sessions.status = "approved_and_saved"
    /\ engineering'.sessions.audit_id = db_audits'[Len(db_audits')].audit_id

\* no script, no row, the session as it was
NothingSaved ==
    /\ engineering'.files = engineering.files
    /\ db_audits' = db_audits
    /\ engineering'.sessions = engineering.sessions

\* C37: approve_and_save_code is all-or-nothing: afterwards the script is
\* written, the audit row inserted and the session is 'approved_and_saved' with
\* its audit_id, or no script remains, no row is inserted and the status is as
\* it was
C37_ApprovalAllOrNothing == [][ApproveStep => (AllSaved \/ NothingSaved)]_vars

\* the current code of the session is the code the engineer rejected: nothing
\* was generated or refined since reject_code
CodeRejected ==
    /\ engineering.sessions.status = "rejected"
    /\ engineering.sessions.rejected_at = engineering.sessions.iterations

\* C38: an approve that follows a reject of the same code, with no generation
\* or refinement in between, writes no file and inserts no audit row
C38_RejectedCodeNotSaved ==
    [][(ApproveStep /\ CodeRejected) =>
          (engineering'.files = engineering.files /\ db_audits' = db_audits)]_vars


(***************************************************************************)
(* Properties of the forwarding of responses to a WebSocket client        *)
(***************************************************************************)
\* handle_agent_response takes a response that the filter lets pass
HandlerChecksDuplicate ==
    /\ Len(forwarding'.log) = Len(forwarding.log) + 1
    /\ forwarding'.log[Len(forwarding'.log)].line # "Filtering"

\* _is_duplicate returned true: nothing was written to the socket
ResponseSuppressed ==
    /\ forwarding'.log[Len(forwarding'.log)].line = "Skipping duplicate"
    /\ forwarding'.to_client = forwarding.to_client

\* the response at hand was forwarded to the client before
AlreadyForwarded ==
    \E i \in DOMAIN forwarding.to_client :
        forwarding.to_client[i].id = Head(forwarding.to_handler).id

\* C39: _is_duplicate returns true for a response exactly if that same response
\* was already forwarded for the session, so each response reaches the client
\* once: the copy of the user agent is suppressed and no response that was not
\* yet delivered is
C39_DuplicateIffForwarded ==
    [][HandlerChecksDuplicate => (ResponseSuppressed <=> AlreadyForwarded)]_vars

\* the copy of a response is written to the socket after the response itself
CopyForwardedToo ==
    \E i \in DOMAIN forwarding.to_client, k \in DOMAIN forwarding.to_client :
        /\ i < k
        /\ forwarding.to_client[i].id = forwarding.to_client[k].id

\* a response is suppressed when it first reaches the handler
UndeliveredSuppressed ==
    \E i \in DOMAIN forwarding.log :
        ~forwarding.log[i].copy /\ forwarding.log[i].line = "Skipping duplicate"

====
